---- MODULE Spec2Model ----
(***************************************************************************)
(* Verification model of the bookkeeping core of bolaxy/core:              *)
(*   - PeerSetCache and PendingRoundsCache      (src/types/caches.go)      *)
(*   - EventBody / Event / ByLamportTimestamp   (src/types/types.go)       *)
(*   - InternalTransaction                (src/types/internal_transaction.go) *)
(* Go strings and byte slices are sequences of byte values (a string is    *)
(* the sequence of its character codes), so every value of the model is    *)
(* built from integers, booleans and the error names below.                *)
(***************************************************************************)
EXTENDS Integers, Sequences, FiniteSets, TLC

(***************************************************************************)
(* Bounds of the model.                                                    *)
(***************************************************************************)
\* rounds handed to PeerSetCache.Set / Get range over 0..MaxRound
MaxRound == 2
\* peers are numbered 1..NumPeers; a peer set is any subset of them
NumPeers == 2
\* pending rounds have an index in 1..MaxIndex
MaxIndex == 3
\* at most MaxObjs PendingRound objects are referenced by the cache at a time
MaxObjs == 2
\* private keys are numbered 1..NumKeys
NumKeys == 2
\* the wire indexes and ids given to SetWireInfo range over 0..MaxWire
MaxWire == 1
\* an event carries at most MaxTxs transactions
MaxTxs == 2
\* a ByLamportTimestamp slice holds at most MaxSort events
MaxSort == 3

\* the size a ParticipantEventsCache is built with
CacheSize == 1

\* a write batch stages at most MaxBatch writes
MaxBatch == 2

VARIABLES
    \* ---- PeerSetCache (caches.go:128-134)
    rounds,              \* sort.IntSlice: sequence of registered rounds
    peerSets,            \* map[int]*PeerSet
    repertoireByPubKey,  \* map[string]*Peer
    repertoireByID,      \* map[uint32]*Peer
    firstRounds,         \* map[uint32]int
    psRet,               \* the last PeerSetCache.Set call and what it returned
    \* ---- PendingRoundsCache (caches.go:247-250)
    prHeap,              \* the PendingRound objects the cache points to: address -> object
    items,               \* map[int]*PendingRound: round index -> address
    sortedItems,         \* OrderedPendingRounds: sequence of addresses
    prOp,                \* the name of the last PendingRoundsCache call
    \* ---- Event (types.go:123-141)
    event,               \* the Event object: Body, Signature, Hash, Hex
    evRet,               \* the last Event method called and what it returned
    lastHash,            \* what the caller got from its previous GetHash call
    mutated,             \* whether Body.Transactions changed since that call
    signedBy,            \* the private key of the last Sign call, 0 when the
                         \* signature does not come from Sign
    lamportSlice,        \* a ByLamportTimestamp slice of events
    block,               \* one Block: Body, Signatures and the memoized hash, hex
    blkRet,              \* what the last Block method returned
    blkSigned,           \* <<bs>> for the BlockSignature the last Sign returned
    blkLastSet,          \* validator bytes -> the signature last given to SetSignature for it
    internalTx,          \* one InternalTransaction
    itxRet,              \* what the last InternalTransaction method returned
    itxSigned,           \* <<[key, body]>> for the last Sign call on internalTx, <<>> when
                         \* the signature does not come from Sign
    \* ---- SigPool (caches.go:301-303)
    spItems,             \* SigPool.items: key string -> BlockSignature
    spRet,               \* what the last SigPool method returned
    spLive,              \* (index, validator) -> the signature last added for it and
                         \* not removed since
    \* ---- ParticipantEventsCache (caches.go:35-38)
    pecParticipants,     \* Participants.ByPubKey: hex key -> peer
    rim,                 \* the rolling index map: participant id -> [lastIndex, items]
    pecRet,              \* the last ParticipantEventsCache call and what it returned
    pecRim,              \* the rolling index map method that call used, "none" for none
    pecHigh,             \* participant id -> the highest index a Set that returned nil
                         \* was called with, -1 for none
    \* ---- MemDatabase, memBatch, BadgerDatabase (badger_database.go)
    memDb,               \* MemDatabase.db: key -> value
    rwLock,              \* MemDatabase.lock: the caller holding it for writing (0 for
                         \* none) and the callers holding it for reading
    pc,                  \* caller -> the MemDatabase method it is in and where
    memBatch,            \* memBatch.writes of the first caller's batch
    batchCancelled,      \* whether Cancel was called on that batch
    dbAtCommit,          \* MemDatabase.db as it was when the last Commit took the lock
    badgerDb,            \* the badger store: key -> value
    dbRet                \* what the last database method returned, and to which caller

psVars == <<rounds, peerSets, repertoireByPubKey, repertoireByID, firstRounds, psRet>>

prVars == <<prHeap, items, sortedItems, prOp>>

evVars == <<event, evRet, lastHash, mutated, signedBy>>

stVars == <<lamportSlice>>
bkVars == <<block, blkRet, blkSigned, blkLastSet>>
ixVars == <<internalTx, itxRet, itxSigned>>
spVars == <<spItems, spRet, spLive>>
\* the variables of the components above the SigPool
coreVars == <<psVars, prVars, evVars, stVars, bkVars, ixVars>>
\* the variables of the SigPool and the components after it
peVars == <<pecParticipants, rim, pecRet, pecRim, pecHigh>>
dbVars == <<memDb, rwLock, pc, memBatch, batchCancelled, dbAtCommit, badgerDb, dbRet>>
moreVars == <<spVars, peVars, dbVars>>
vars == <<coreVars, moreVars>>

(***************************************************************************)
(* Generic helpers.                                                        *)
(***************************************************************************)
\* a Go map: a function whose DOMAIN is the key set
EmptyMap == [k \in {} |-> 0]

MapPut(m, k, v) == [x \in (DOMAIN m) \cup {k} |-> IF x = k THEN v ELSE m[x]]

MapDelete(m, k) == [x \in (DOMAIN m) \ {k} |-> m[x]]

Range(s) == {s[i] : i \in DOMAIN s}

Min(S) == CHOOSE x \in S : \A y \in S : x <= y

Max(S) == CHOOSE x \in S : \A y \in S : x >= y

\* s without its element at position i
RemoveAt(s, i) == [j \in 1..(Len(s) - 1) |-> IF j < i THEN s[j] ELSE s[j + 1]]

(***************************************************************************)
(* PeerSetCache  (src/types/caches.go:127-224)                             *)
(***************************************************************************)
Rounds == 0..MaxRound

Peers == 1..NumPeers

\* conf.Peer.ID(): the numeric id of a peer
PeerID(p) == p

\* conf.Peer.PubKeyString(): the hex public key of a peer, here a key distinct per peer
PubKeyString(p) == <<p>>

\* the snapshots a caller can hand to Set: conf.PeerSet values with their Peers
PeerSetValues == SUBSET Peers

\* sort.IntSlice.Sort(): the ascending arrangement of s
RECURSIVE IntSliceSort(_)
IntSliceSort(s) ==
    IF Len(s) = 0 THEN <<>>
    ELSE LET i == CHOOSE j \in DOMAIN s : \A k \in DOMAIN s : s[j] <= s[k]
         IN  <<s[i]>> \o IntSliceSort(RemoveAt(s, i))

\* mutant: the loop records a first round only for a peer that has none yet
RECURSIVE SetPeersKeepFirstSeen(_, _, _, _, _)
SetPeersKeepFirstSeen(ps, round, byPub, byID, fr) ==
    IF ps = {} THEN <<byPub, byID, fr>>
    ELSE LET p == CHOOSE x \in ps : TRUE
             fr2 == IF PeerID(p) \notin DOMAIN fr
                    THEN MapPut(fr, PeerID(p), round)
                    ELSE fr
         IN  SetPeersKeepFirstSeen(ps \ {p}, round,
                                   MapPut(byPub, PubKeyString(p), p),
                                   MapPut(byID, PeerID(p), p),
                                   fr2)

\* the loop of Set over peerSet.Peers (caches.go:158-165), one peer at a time
RECURSIVE SetPeers(_, _, _, _, _)
SetPeers(ps, round, byPub, byID, fr) ==
    IF ps = {} THEN <<byPub, byID, fr>>
    ELSE LET p == CHOOSE x \in ps : TRUE
             fr2 == IF PeerID(p) \notin DOMAIN fr \/ fr[PeerID(p)] > round
                    THEN MapPut(fr, PeerID(p), round)
                    ELSE fr
         IN  SetPeers(ps \ {p}, round,
                      MapPut(byPub, PubKeyString(p), p),
                      MapPut(byID, PeerID(p), p),
                      fr2)

\* mutant: Set rebuilds both repertoires from the new snapshot alone
PeerSetCacheSetFreshRepertoire(round, peerSet) ==
    IF round \in DOMAIN peerSets
    THEN /\ psRet' = [round |-> round, err |-> "KeyAlreadyExists"]
         /\ UNCHANGED <<rounds, peerSets, repertoireByPubKey, repertoireByID, firstRounds>>
    ELSE LET upd == SetPeers(peerSet, round, EmptyMap, EmptyMap, firstRounds)
         IN  /\ peerSets' = MapPut(peerSets, round, peerSet)
             /\ rounds' = IntSliceSort(Append(rounds, round))
             /\ repertoireByPubKey' = upd[1]
             /\ repertoireByID' = upd[2]
             /\ firstRounds' = upd[3]
             /\ psRet' = [round |-> round, err |-> "nil"]

\* mutant: Set appends the round and forgets to sort
PeerSetCacheSetNoSort(round, peerSet) ==
    IF round \in DOMAIN peerSets
    THEN /\ psRet' = [round |-> round, err |-> "KeyAlreadyExists"]
         /\ UNCHANGED <<rounds, peerSets, repertoireByPubKey, repertoireByID, firstRounds>>
    ELSE LET upd == SetPeers(peerSet, round, repertoireByPubKey, repertoireByID, firstRounds)
         IN  /\ peerSets' = MapPut(peerSets, round, peerSet)
             /\ rounds' = Append(rounds, round)
             /\ repertoireByPubKey' = upd[1]
             /\ repertoireByID' = upd[2]
             /\ firstRounds' = upd[3]
             /\ psRet' = [round |-> round, err |-> "nil"]

\* mutant: Set without the KeyAlreadyExists check, overwriting the snapshot
PeerSetCacheSetOverwrite(round, peerSet) ==
    LET upd == SetPeers(peerSet, round, repertoireByPubKey, repertoireByID, firstRounds)
    IN  /\ peerSets' = MapPut(peerSets, round, peerSet)
        /\ rounds' = IntSliceSort(Append(rounds, round))
        /\ repertoireByPubKey' = upd[1]
        /\ repertoireByID' = upd[2]
        /\ firstRounds' = upd[3]
        /\ psRet' = [round |-> round,
                     err |-> IF round \in DOMAIN peerSets THEN "KeyAlreadyExists" ELSE "nil"]

\* PeerSetCache.Set (caches.go:148-169)
PeerSetCacheSet(round, peerSet) ==
    IF round \in DOMAIN peerSets
    THEN /\ psRet' = [round |-> round, err |-> "KeyAlreadyExists"]
         /\ UNCHANGED <<rounds, peerSets, repertoireByPubKey, repertoireByID, firstRounds>>
    ELSE LET upd == SetPeers(peerSet, round, repertoireByPubKey, repertoireByID, firstRounds)
         IN  /\ peerSets' = MapPut(peerSets, round, peerSet)
             /\ rounds' = IntSliceSort(Append(rounds, round))
             /\ repertoireByPubKey' = upd[1]
             /\ repertoireByID' = upd[2]
             /\ firstRounds' = upd[3]
             /\ psRet' = [round |-> round, err |-> "nil"]

\* the scan of Get over adjacent pairs of rounds (caches.go:188-195); i is 1-based
RECURSIVE PeerSetCacheGetScan(_, _)
PeerSetCacheGetScan(i, round) ==
    IF i > Len(rounds) - 1
    THEN peerSets[rounds[Len(rounds)]]
    ELSE IF round >= rounds[i] /\ round < rounds[i + 1]
         THEN peerSets[rounds[i]]
         ELSE PeerSetCacheGetScan(i + 1, round)

\* PeerSetCache.Get (caches.go:172-196): the snapshot and the error returned
PeerSetCacheGet(round) ==
    IF round \in DOMAIN peerSets
    THEN [peerSet |-> peerSets[round], err |-> "nil"]
    ELSE IF Len(rounds) = 0
         THEN [peerSet |-> {}, err |-> "KeyNotFound"]
         ELSE IF round < rounds[1]
              THEN [peerSet |-> peerSets[rounds[1]], err |-> "nil"]
              ELSE [peerSet |-> PeerSetCacheGetScan(1, round), err |-> "nil"]

\* NewPeerSetCache (caches.go:137-145)
NewPeerSetCache ==
    /\ rounds = <<>>
    /\ peerSets = EmptyMap
    /\ repertoireByPubKey = EmptyMap
    /\ repertoireByID = EmptyMap
    /\ firstRounds = EmptyMap
    /\ psRet = [round |-> 0, err |-> "none"]

\* math.MaxInt32 (caches.go:223)
MaxInt32 == 2147483647

\* PeerSetCache.RepertoireByID (caches.go:207-209)
RepertoireByID == repertoireByID

\* PeerSetCache.RepertoireByPubKey (caches.go:212-214)
RepertoireByPubKey == repertoireByPubKey

\* PeerSetCache.FirstRound (caches.go:218-224): the round and the found flag
PeerSetCacheFirstRound(id) ==
    IF id \in DOMAIN firstRounds
    THEN [round |-> firstRounds[id], found |-> TRUE]
    ELSE [round |-> MaxInt32, found |-> FALSE]

(***************************************************************************)
(* PendingRoundsCache  (src/types/caches.go:226-298)                       *)
(* The cache holds pointers: items and sortedItems hold addresses of      *)
(* PendingRound objects, and prHeap holds the objects still referenced.    *)
(***************************************************************************)
Indexes == 1..MaxIndex

Addrs == 1..MaxObjs

\* PendingRound (caches.go:227-230)
PendingRound(index, decided) == [Index |-> index, Decided |-> decided]

\* OrderedPendingRounds.Less (caches.go:242-244) on the objects of heap h
OrderedPendingRoundsLess(h, a, i, j) == h[a[i]].Index < h[a[j]].Index

\* the arrangements of s
RECURSIVE Arrangements(_)
Arrangements(s) ==
    IF Len(s) = 0 THEN {<<>>}
    ELSE UNION {{<<s[i]>> \o t : t \in Arrangements(RemoveAt(s, i))} : i \in DOMAIN s}

\* sort.Sort (not stable): every arrangement of a in which no element is Less than
\* an earlier one is a possible result
SortOutcomes(h, a) ==
    {t \in Arrangements(a) :
        \A i, j \in DOMAIN t : i < j => ~OrderedPendingRoundsLess(h, t, j, i)}

\* the objects still referenced by the map m or the slice a
Referenced(h, m, a) == [x \in {m[k] : k \in DOMAIN m} \cup Range(a) |-> h[x]]

\* PendingRoundsCache.Queued (caches.go:261-264)
Queued(round) == round \in DOMAIN items

\* PendingRoundsCache.GetOrderedPendingRounds (caches.go:274-276), as objects
GetOrderedPendingRounds == [i \in DOMAIN sortedItems |-> prHeap[sortedItems[i]]]

\* mutant: Set appends the new PendingRound and does not sort
PendingRoundsCacheSetNoSort(index, decided) ==
    /\ Cardinality(DOMAIN prHeap) < MaxObjs
    /\ LET p == Min(Addrs \ DOMAIN prHeap)
           h == MapPut(prHeap, p, PendingRound(index, decided))
           m == MapPut(items, index, p)
           t == Append(sortedItems, p)
       IN  /\ items' = m
           /\ sortedItems' = t
           /\ prHeap' = Referenced(h, m, t)
    /\ prOp' = "Set"

\* PendingRoundsCache.Set (caches.go:267-271) with a newly allocated
\* PendingRound{Index: index, Decided: decided}
PendingRoundsCacheSet(index, decided) ==
    /\ Cardinality(DOMAIN prHeap) < MaxObjs
    /\ LET p == Min(Addrs \ DOMAIN prHeap)
           h == MapPut(prHeap, p, PendingRound(index, decided))
           m == MapPut(items, index, p)
       IN  \E t \in SortOutcomes(h, Append(sortedItems, p)) :
               /\ items' = m
               /\ sortedItems' = t
               /\ prHeap' = Referenced(h, m, t)
    /\ prOp' = "Set"

\* mutant: Update marks every object as decided as soon as the list is not empty
UpdateLoopMarkAll(h, drs) ==
    IF Len(drs) = 0 THEN h ELSE [a \in DOMAIN h |-> [h[a] EXCEPT !.Decided = TRUE]]

\* the loop of Update (caches.go:280-284) over the list drs
RECURSIVE UpdateLoop(_, _)
UpdateLoop(h, drs) ==
    IF Len(drs) = 0 THEN h
    ELSE LET drn == Head(drs)
         IN  UpdateLoop(IF drn \in DOMAIN items
                        THEN [h EXCEPT ![items[drn]].Decided = TRUE]
                        ELSE h,
                        Tail(drs))

\* PendingRoundsCache.Update (caches.go:279-285)
PendingRoundsCacheUpdate(decidedRounds) ==
    /\ prHeap' = UpdateLoop(prHeap, decidedRounds)
    /\ prOp' = "Update"
    /\ UNCHANGED <<items, sortedItems>>

\* the first loop of Clean (caches.go:289-291)
RECURSIVE CleanLoop(_, _)
CleanLoop(m, prs) ==
    IF Len(prs) = 0 THEN m ELSE CleanLoop(MapDelete(m, Head(prs)), Tail(prs))

\* a slice holding the values of map m once each, in some order (caches.go:292-295)
MapValuesSlices(m) ==
    {a \in [1..Cardinality(DOMAIN m) -> {m[k] : k \in DOMAIN m}] :
        \A k \in DOMAIN m : \E i \in DOMAIN a : a[i] = m[k]}

\* mutant: Clean drops the listed rounds from the sorted view it already has
PendingRoundsCacheCleanFilter(processedRounds) ==
    /\ LET m == CleanLoop(items, processedRounds)
           t == SelectSeq(sortedItems, LAMBDA x : prHeap[x].Index \notin Range(processedRounds))
       IN  /\ items' = m
           /\ sortedItems' = t
           /\ prHeap' = Referenced(prHeap, m, t)
    /\ prOp' = "Clean"

\* PendingRoundsCache.Clean (caches.go:288-298)
PendingRoundsCacheClean(processedRounds) ==
    /\ items' = CleanLoop(items, processedRounds)
    /\ \E a \in MapValuesSlices(items') :
       \E t \in SortOutcomes(prHeap, a) :
           /\ sortedItems' = t
           /\ prHeap' = Referenced(prHeap, items', t)
    /\ prOp' = "Clean"

\* the elements of S in ascending order
RECURSIVE AscendingSeq(_)
AscendingSeq(S) == IF S = {} THEN <<>> ELSE <<Min(S)>> \o AscendingSeq(S \ {Min(S)})

\* the lists handed to Update and Clean: any set of round indexes, as a slice
RoundLists == {AscendingSeq(S) : S \in SUBSET Indexes}


\* NewPendingRoundsCache (caches.go:253-258)
NewPendingRoundsCache ==
    /\ prHeap = EmptyMap
    /\ items = EmptyMap
    /\ sortedItems = <<>>
    /\ prOp = "New"

(***************************************************************************)
(* Byte strings, hex text and the cryptographic primitives.                *)
(* hexutil, crypto.Keccak256, crypto.Sign and crypto.VerifySignature are   *)
(* library calls; each is modelled at the place the code calls it.         *)
(***************************************************************************)
\* the concatenation of the byte strings of a list
RECURSIVE Flatten(_)
Flatten(ss) == IF Len(ss) = 0 THEN <<>> ELSE Head(ss) \o Flatten(Tail(ss))

\* the value of a hex character code, or -1: '0'-'9', 'a'-'f', 'A'-'F'
FromHexChar(c) ==
    IF c >= 48 /\ c <= 57 THEN c - 48
    ELSE IF c >= 97 /\ c <= 102 THEN c - 87
    ELSE IF c >= 65 /\ c <= 70 THEN c - 55
    ELSE -1

\* the lower-case hex character code of a nibble
ToHexChar(n) == IF n < 10 THEN 48 + n ELSE 87 + n

\* hexutil.Encode (types.go:228): "0x" followed by two hex digits per byte
HexEncode(b) ==
    <<48, 120>> \o [i \in 1..(2 * Len(b)) |->
                       IF i % 2 = 1
                       THEN ToHexChar(b[(i + 1) \div 2] \div 16)
                       ELSE ToHexChar(b[i \div 2] % 16)]

\* the pairwise decoding loop of hex.DecodeString from position p on: the bytes
\* decoded before the first error come back with the error
RECURSIVE HexDecodePairs(_, _, _)
HexDecodePairs(src, p, acc) ==
    IF p + 1 > Len(src)
    THEN IF Len(src) % 2 = 1
         THEN IF FromHexChar(src[p]) < 0
              THEN [bytes |-> acc, err |-> "invalid hex string"]
              ELSE [bytes |-> acc, err |-> "hex string of odd length"]
         ELSE [bytes |-> acc, err |-> "nil"]
    ELSE IF FromHexChar(src[p]) < 0 \/ FromHexChar(src[p + 1]) < 0
         THEN [bytes |-> acc, err |-> "invalid hex string"]
         ELSE HexDecodePairs(src, p + 2,
                             Append(acc, FromHexChar(src[p]) * 16 + FromHexChar(src[p + 1])))

\* hexutil.Decode (types.go:259): the bytes and the error
HexDecode(input) ==
    IF Len(input) = 0
    THEN [bytes |-> <<>>, err |-> "empty hex string"]
    ELSE IF ~(Len(input) >= 2 /\ input[1] = 48 /\ input[2] \in {120, 88})
         THEN [bytes |-> <<>>, err |-> "hex string without 0x prefix"]
         ELSE HexDecodePairs(SubSeq(input, 3, Len(input)), 1, <<>>)

\* new(big.Int).SetBytes (types.go:433): the big-endian value of a byte string
RECURSIVE BigIntSetBytes(_)
BigIntSetBytes(b) ==
    IF Len(b) = 0 THEN 0
    ELSE BigIntSetBytes(SubSeq(b, 1, Len(b) - 1)) * 256 + b[Len(b)]

\* crypto.Keccak256 (types.go:88): a collision-free digest, written as the
\* digest tag followed by the bytes it was taken over
Keccak256(data) == <<Len(data) % 256>> \o data

PrivKeys == 1..NumKeys

\* crypto.FromECDSAPub (badger_database.go:632): the uncompressed bytes of the
\* public key of private key k
FromECDSAPub(k) == <<4, k>>

\* the R||S part of the signature of digest under private key k: an ideal
\* signature, determined by the digest and the key and by nothing else
SignatureRS(digest, k) == digest \o <<k>>

\* crypto.Sign (types.go:223): R||S followed by the recovery id v
CryptoSign(digest, k, v) == SignatureRS(digest, k) \o <<v>>

\* the recovery ids crypto.Sign can append
RecoveryIDs == {0, 1}

\* crypto.VerifySignature (types.go:263): sig is the R||S signature of digest
\* under the private key of pubBytes
VerifySignature(pubBytes, digest, sig) ==
    \E k \in PrivKeys : pubBytes = FromECDSAPub(k) /\ sig = SignatureRS(digest, k)

\* the encoding of a byte string or string inside a marshalled value
EncBytes(b) == <<Len(b)>> \o b

\* the encoding of a list, given the encodings of its elements
EncList(encs) == <<Len(encs)>> \o Flatten(encs)

(***************************************************************************)
(* InternalTransaction  (src/types/internal_transaction.go)                *)
(***************************************************************************)
\* conf.Peer: the peer descriptor, here its public key bytes
Peer(pubKey) == [PubKey |-> pubKey]

\* conf.Peer.PubKeyBytes (internal_transaction.go:146)
PubKeyBytes(peer) == peer.PubKey

\* InternalTransactionBody.Marshal (internal_transaction.go:57-67)
InternalTransactionBodyMarshal(b) == <<b.Type>> \o EncBytes(PubKeyBytes(b.Peer)) \o <<b.Id>>

\* InternalTransactionBody.Hash (internal_transaction.go:70-76)
InternalTransactionBodyHash(b) == Keccak256(InternalTransactionBodyMarshal(b))

\* NewInternalTransaction (internal_transaction.go:85-89)
NewInternalTransaction(tType, peer, id) ==
    [Body |-> [Type |-> tType, Peer |-> peer, Id |-> id], Signature |-> <<>>]

\* NewInternalTransactionJoin (internal_transaction.go:92-94): PEERADD is 0
NewInternalTransactionJoin(peer) == NewInternalTransaction(0, peer, 0)

\* InternalTransaction.Sign (internal_transaction.go:128-142) with recovery id v
InternalTransactionSign(t, k, v) ==
    [t EXCEPT !.Signature = HexEncode(CryptoSign(InternalTransactionBodyHash(t.Body), k, v))]

\* mutant: Verify checks the signature against the key of the first validator
\* instead of the key carried in the body
InternalTransactionVerifyFixedKey(t) ==
    LET sig == HexDecode(t.Signature)
    IN  IF sig.err # "nil"
        THEN [ok |-> FALSE, err |-> sig.err]
        ELSE IF Len(sig.bytes) = 0
             THEN [ok |-> FALSE, err |-> "panic"]
             ELSE [ok |-> VerifySignature(FromECDSAPub(1),
                                          InternalTransactionBodyHash(t.Body),
                                          SubSeq(sig.bytes, 1, Len(sig.bytes) - 1)),
                   err |-> "nil"]

\* InternalTransaction.Verify (internal_transaction.go:145-158)
InternalTransactionVerify(t) ==
    LET sig == HexDecode(t.Signature)
    IN  IF sig.err # "nil"
        THEN [ok |-> FALSE, err |-> sig.err]
        ELSE IF Len(sig.bytes) = 0
             THEN [ok |-> FALSE, err |-> "panic"]
             ELSE [ok |-> VerifySignature(PubKeyBytes(t.Body.Peer),
                                          InternalTransactionBodyHash(t.Body),
                                          SubSeq(sig.bytes, 1, Len(sig.bytes) - 1)),
                   err |-> "nil"]

(***************************************************************************)
(* EventBody and Event  (src/types/types.go:29-385)                        *)
(***************************************************************************)
\* BlockSignature.Marshal (badger_database.go:403-410), as carried in an event body
EncBlockSignature(bs) == EncBytes(bs.Validator) \o <<bs.Index>> \o EncBytes(bs.Signature)

\* InternalTransaction.Marshal (internal_transaction.go:102-112)
InternalTransactionMarshal(t) == InternalTransactionBodyMarshal(t.Body) \o EncBytes(t.Signature)

\* EventBody.Marshal (types.go:46-53): the encoder writes every field of the
\* struct, the four wire fields included
EventBodyMarshal(b) ==
    EncList([i \in DOMAIN b.Transactions |-> EncBytes(b.Transactions[i])])
        \o EncList([i \in DOMAIN b.InternalTransactions |-> InternalTransactionMarshal(b.InternalTransactions[i])])
        \o EncList([i \in DOMAIN b.Parents |-> EncBytes(b.Parents[i])])
        \o EncBytes(b.Creator)
        \o <<b.Index>>
        \o EncList([i \in DOMAIN b.BlockSignatures |-> EncBlockSignature(b.BlockSignatures[i])])
        \o <<b.CreatorID, b.OtherParentCreatorID, b.SelfParentIndex, b.OtherParentIndex>>

\* mutant: MarshalSign encodes the body as it is, wire fields included
EventBodyMarshalSignAll(b) == EventBodyMarshal(b)

\* mutant: the copy made by MarshalSign leaves Index out
EventBodyMarshalSignNoIndex(b) ==
    EventBodyMarshal([b EXCEPT !.Index = 0, !.CreatorID = 0, !.OtherParentCreatorID = 0,
                               !.SelfParentIndex = 0, !.OtherParentIndex = 0])

\* EventBody.MarshalSign (types.go:55-70): encodes a copy holding the six
\* persistent fields, whose wire fields are zero
EventBodyMarshalSign(b) ==
    EventBodyMarshal([b EXCEPT !.CreatorID = 0, !.OtherParentCreatorID = 0,
                               !.SelfParentIndex = 0, !.OtherParentIndex = 0])

\* EventBody.Hash (types.go:83-89)
EventBodyHash(b) == Keccak256(EventBodyMarshal(b))

\* EventBody.HashSign (types.go:91-97)
EventBodyHashSign(b) == Keccak256(EventBodyMarshalSign(b))

\* NewEvent (types.go:144-163)
NewEvent(transactions, internalTransactions, blockSignatures, parents, creator, index) ==
    [Body |-> [Transactions |-> transactions,
               InternalTransactions |-> internalTransactions,
               Parents |-> parents,
               Creator |-> creator,
               Index |-> index,
               BlockSignatures |-> blockSignatures,
               CreatorID |-> 0,
               OtherParentCreatorID |-> 0,
               SelfParentIndex |-> 0,
               OtherParentIndex |-> 0],
     Signature |-> <<>>,
     Hash |-> <<>>,
     Hex |-> <<>>]

\* what an Event method returned: ok and val are the results, err the error
\* ("nil" for none, "panic" for a run-time panic)
Ret(op, ok, err, val) == [op |-> op, ok |-> ok, err |-> err, val |-> val]

\* the loop of Verify over the internal transactions (types.go:242-250), from
\* position i on: <<>> when all verify, else what Verify returns
RECURSIVE VerifyInternalTransactions(_, _)
VerifyInternalTransactions(itxs, i) ==
    IF i > Len(itxs) THEN [ok |-> TRUE, err |-> "nil"]
    ELSE LET r == InternalTransactionVerify(itxs[i])
         IN  IF r.err # "nil" THEN [ok |-> FALSE, err |-> r.err]
             ELSE IF ~r.ok
                  THEN [ok |-> FALSE, err |-> "invalid signature on internal transaction"]
                  ELSE VerifyInternalTransactions(itxs, i + 1)

\* Event.Verify (types.go:239-264) on event e: the boolean and the error
EventVerifyResult(e) ==
    LET itx == VerifyInternalTransactions(e.Body.InternalTransactions, 1)
        sig == HexDecode(e.Signature)
    IN  IF ~itx.ok THEN itx
        ELSE IF sig.err # "nil" THEN [ok |-> FALSE, err |-> sig.err]
        ELSE IF Len(sig.bytes) = 0 THEN [ok |-> FALSE, err |-> "panic"]
        ELSE [ok |-> VerifySignature(e.Body.Creator, EventBodyHashSign(e.Body),
                                     SubSeq(sig.bytes, 1, Len(sig.bytes) - 1)),
              err |-> "nil"]

\* Event.Verify as a call
EventVerify ==
    /\ evRet' = Ret("Verify", EventVerifyResult(event).ok, EventVerifyResult(event).err, <<>>)
    /\ UNCHANGED <<event, lastHash, mutated, signedBy>>

\* InternalTransaction.Verify (internal_transaction.go:145-158) called on the
\* i-th internal transaction the event carries
InternalTransactionVerifyCall(i) ==
    /\ i \in DOMAIN event.Body.InternalTransactions
    /\ LET r == InternalTransactionVerify(event.Body.InternalTransactions[i])
       IN  evRet' = Ret("InternalTransaction.Verify", r.ok, r.err, <<>>)
    /\ UNCHANGED <<event, lastHash, mutated, signedBy>>

\* Event.Sign (types.go:217-236); v is the recovery id crypto.Sign appends
EventSign(privKey, v) ==
    /\ event' = [event EXCEPT
                    !.Signature = HexEncode(CryptoSign(EventBodyHashSign(event.Body), privKey, v))]
    /\ evRet' = Ret("Sign", TRUE, "nil", <<>>)
    /\ signedBy' = privKey
    /\ UNCHANGED <<lastHash, mutated>>

\* Event.SetWireInfo (types.go:345-353)
EventSetWireInfo(selfParentIndex, otherParentCreatorID, otherParentIndex, creatorID) ==
    /\ event' = [event EXCEPT !.Body.SelfParentIndex = selfParentIndex,
                              !.Body.OtherParentCreatorID = otherParentCreatorID,
                              !.Body.OtherParentIndex = otherParentIndex,
                              !.Body.CreatorID = creatorID]
    /\ evRet' = Ret("SetWireInfo", TRUE, "nil", <<>>)
    /\ UNCHANGED <<lastHash, mutated, signedBy>>

\* Event.GetHash (types.go:289-300): computes the hash only while e.Hash is empty
EventGetHash ==
    LET hash == IF Len(event.Hash) = 0 THEN EventBodyHash(event.Body) ELSE event.Hash
    IN  /\ event' = [event EXCEPT !.Hash = hash]
        /\ evRet' = Ret("GetHash", TRUE, "nil", hash)
        /\ lastHash' = hash
        /\ mutated' = FALSE
        /\ UNCHANGED signedBy

\* Event.GetHex (types.go:303-310)
EventGetHex ==
    LET hash == IF Len(event.Hash) = 0 THEN EventBodyHash(event.Body) ELSE event.Hash
        hex == IF Len(event.Hex) = 0 THEN HexEncode(hash) ELSE event.Hex
    IN  /\ event' = [event EXCEPT !.Hash = IF Len(event.Hex) = 0 THEN hash ELSE event.Hash,
                                  !.Hex = hex]
        /\ evRet' = Ret("GetHex", TRUE, "nil", hex)
        /\ UNCHANGED <<lastHash, mutated, signedBy>>

\* a caller appends a transaction to the exported field Body.Transactions
\* (types.go:31); Event has no method that does it
EventAppendTransaction(tx) ==
    /\ Len(event.Body.Transactions) < MaxTxs
    /\ event' = [event EXCEPT !.Body.Transactions = Append(@, tx)]
    /\ evRet' = Ret("AppendTransaction", TRUE, "nil", <<>>)
    /\ mutated' = TRUE
    /\ UNCHANGED <<lastHash, signedBy>>

\* a caller stores a signature string in the exported field Signature
\* (types.go:125), as when an event is rebuilt from a WireEvent
EventSetSignature(signature) ==
    /\ event' = [event EXCEPT !.Signature = signature]
    /\ evRet' = Ret("SetSignature", TRUE, "nil", <<>>)
    /\ signedBy' = 0
    /\ UNCHANGED <<lastHash, mutated>>

\* Event.SelfParent (types.go:175-177): Parents[0], a panic when out of range
EventSelfParent ==
    /\ evRet' = IF Len(event.Body.Parents) >= 1
                THEN Ret("SelfParent", TRUE, "nil", event.Body.Parents[1])
                ELSE Ret("SelfParent", FALSE, "panic", <<>>)
    /\ UNCHANGED <<event, lastHash, mutated, signedBy>>

\* Event.OtherParent (types.go:180-182): Parents[1], a panic when out of range
EventOtherParent ==
    /\ evRet' = IF Len(event.Body.Parents) >= 2
                THEN Ret("OtherParent", TRUE, "nil", event.Body.Parents[2])
                ELSE Ret("OtherParent", FALSE, "panic", <<>>)
    /\ UNCHANGED <<event, lastHash, mutated, signedBy>>

(***************************************************************************)
(* The inputs the Event operations are exercised with.                     *)
(***************************************************************************)
\* the transaction payload callers use
TxValue == <<1>>

\* the hashes of the two parents of a non-initial event: "a" and "b"
TwoParents == <<<<97>>, <<98>>>>

\* the internal transactions an event can carry: a join of the peer of key 1,
\* signed by that peer, signed by the last key instead, not signed at all,
\* and with the signature "0x"
ItxGood == InternalTransactionSign(NewInternalTransactionJoin(Peer(FromECDSAPub(1))), 1, 0)

ItxOtherKey == InternalTransactionSign(NewInternalTransactionJoin(Peer(FromECDSAPub(1))), NumKeys, 0)

ItxUnsigned == NewInternalTransactionJoin(Peer(FromECDSAPub(1)))

ItxZeroBytes == [ItxUnsigned EXCEPT !.Signature = <<48, 120>>]

ItxLists == {<<>>, <<ItxGood>>, <<ItxOtherKey>>, <<ItxUnsigned>>, <<ItxZeroBytes>>}

\* a creator's first event has no parents and index 0; a later one has two parents
EventShapes == {[parents |-> <<>>, index |-> 0], [parents |-> TwoParents, index |-> 1]}

\* the events NewEvent is called for
NewEvents ==
    {NewEvent(txs, itxs, <<>>, shape.parents, FromECDSAPub(k), shape.index) :
        txs \in {<<>>, <<TxValue>>}, itxs \in ItxLists, shape \in EventShapes, k \in PrivKeys}

\* the argument tuples of SetWireInfo: at most one of the four is not zero, or
\* all four are equal
WireInputs ==
    {w \in (0..MaxWire) \X (0..MaxWire) \X (0..MaxWire) \X (0..MaxWire) :
        \/ Cardinality({i \in 1..4 : w[i] # 0}) <= 1
        \/ \A i \in 1..4 : w[i] = w[1]}

\* signature strings that Sign did not produce: "", "0x", "0x0", "zz", "0x00"
SignatureInputs == {<<>>, <<48, 120>>, <<48, 120, 48>>, <<122, 122>>, <<48, 120, 48, 48>>}

\* no Event call has been made yet
EventFresh ==
    /\ evRet = Ret("NewEvent", TRUE, "nil", <<>>)
    /\ lastHash = <<>>
    /\ mutated = FALSE
    /\ signedBy = 0

\* the one event the cache specifications carry along
EventIdle == event = NewEvent(<<>>, <<>>, <<>>, <<>>, FromECDSAPub(1), 0) /\ EventFresh

(***************************************************************************)
(* One InternalTransaction that is signed, changed and verified.           *)
(***************************************************************************)
\* the internal transactions NewInternalTransaction is called for: a join
\* (PEERADD, 0) or a leave (PEERREMOVE, 1) of the peer of some key
NewInternalTransactions ==
    {NewInternalTransaction(tType, Peer(FromECDSAPub(k)), 0) : tType \in {0, 1}, k \in PrivKeys}

\* InternalTransaction.Sign (internal_transaction.go:128-142) as a call; the
\* caller notes the key and the body that was signed
InternalTransactionSignCall(privKey, v) ==
    /\ internalTx' = InternalTransactionSign(internalTx, privKey, v)
    /\ itxRet' = Ret("Sign", TRUE, "nil", <<>>)
    /\ itxSigned' = <<[key |-> privKey, body |-> internalTx.Body]>>

\* InternalTransaction.Verify as a call on the transaction
InternalTransactionVerifyItx ==
    /\ itxRet' = Ret("Verify", InternalTransactionVerify(internalTx).ok,
                     InternalTransactionVerify(internalTx).err, <<>>)
    /\ UNCHANGED <<internalTx, itxSigned>>

\* a caller writes the exported field Body.Type (internal_transaction.go:51)
ItxSetType(tType) ==
    /\ internalTx' = [internalTx EXCEPT !.Body.Type = tType]
    /\ itxRet' = Ret("SetType", TRUE, "nil", <<>>)
    /\ UNCHANGED itxSigned

\* a caller writes the exported field Body.Peer (internal_transaction.go:52)
ItxSetPeer(peer) ==
    /\ internalTx' = [internalTx EXCEPT !.Body.Peer = peer]
    /\ itxRet' = Ret("SetPeer", TRUE, "nil", <<>>)
    /\ UNCHANGED itxSigned

\* a caller stores a signature string that no Sign call made in the exported
\* field Signature (internal_transaction.go:81)
ItxSetSignature(signature) ==
    /\ internalTx' = [internalTx EXCEPT !.Signature = signature]
    /\ itxRet' = Ret("SetSignature", TRUE, "nil", <<>>)
    /\ itxSigned' = <<>>

\* a caller replaces the trailing recovery byte of a signature that decodes;
\* the R||S part, and with it who signed what, stays
ItxSetRecoveryByte(x) ==
    /\ HexDecode(internalTx.Signature).err = "nil"
    /\ Len(HexDecode(internalTx.Signature).bytes) > 0
    /\ internalTx' = [internalTx EXCEPT !.Signature =
                  HexEncode([HexDecode(internalTx.Signature).bytes EXCEPT
                                ![Len(HexDecode(internalTx.Signature).bytes)] = x])]
    /\ itxRet' = Ret("SetRecoveryByte", TRUE, "nil", <<>>)
    /\ UNCHANGED itxSigned

\* no InternalTransaction call has been made yet
ItxFresh ==
    /\ itxRet = Ret("NewInternalTransaction", TRUE, "nil", <<>>)
    /\ itxSigned = <<>>

\* the one internal transaction the other specifications carry along
ItxIdle == internalTx = NewInternalTransactionJoin(Peer(FromECDSAPub(1))) /\ ItxFresh

(***************************************************************************)
(* ByLamportTimestamp (types.go:407-434): sort.Interface over a slice of   *)
(* events.  An event of the slice is the pair of fields Less reads: the    *)
(* LamportTimestamp pointer (<<>> is nil, <<t>> points to t) and the       *)
(* Signature string.                                                       *)
(***************************************************************************)
Timestamps == {-2, -1, 0}

\* "0x01", "0x0001", "0x02" and the empty string
SortSignatures == {<<48, 120, 48, 49>>, <<48, 120, 48, 48, 48, 49>>,
                   <<48, 120, 48, 50>>, <<>>}

\* ByLamportTimestamp.Len
ByLamportTimestampLen(a) == Len(a)

\* ByLamportTimestamp.Swap on a slice value
SwapElems(a, i, j) == [a EXCEPT ![i] = a[j], ![j] = a[i]]

\* the timestamp Less compares: -1 for a nil pointer
LessTimestamp(e) == IF e.LamportTimestamp # <<>> THEN e.LamportTimestamp[1] ELSE -1

\* ByLamportTimestamp.Less: decode errors are dropped, the decoded bytes are
\* compared as unsigned big-endian integers
ByLamportTimestampLess(a, i, j) ==
    LET it == LessTimestamp(a[i])
        jt == LessTimestamp(a[j])
    IN  IF it # jt
        THEN it < jt
        ELSE LET wsi == HexDecode(a[i].Signature).bytes
                 wsj == HexDecode(a[j].Signature).bytes
             IN  BigIntSetBytes(wsi) < BigIntSetBytes(wsj)

\* the inner loop of the insertion sort that sort.Sort runs on a short slice:
\* for j := i; j > 0 && Less(j, j-1); j-- { Swap(j, j-1) }
RECURSIVE InsertionInner(_, _)
InsertionInner(a, j) ==
    IF j > 1 /\ ByLamportTimestampLess(a, j, j - 1)
    THEN InsertionInner(SwapElems(a, j, j - 1), j - 1)
    ELSE a

\* the outer loop: for i := 1; i < Len(); i++
RECURSIVE InsertionOuter(_, _)
InsertionOuter(a, i) ==
    IF i > ByLamportTimestampLen(a) THEN a
    ELSE InsertionOuter(InsertionInner(a, i), i + 1)

\* sort.Sort(ByLamportTimestamp(a))
SortByLamportTimestamp(a) == InsertionOuter(a, 2)

\* a caller appends a new event, with its signature and no timestamp yet
LamportAppend(signature) ==
    /\ Len(lamportSlice) < MaxSort
    /\ lamportSlice' = Append(lamportSlice,
                              [LamportTimestamp |-> <<>>, Signature |-> signature])

\* Event.SetLamportTimestamp (types.go:327-333) on the i-th event of the slice
EventSetLamportTimestamp(i, t) ==
    /\ i \in 1..Len(lamportSlice)
    /\ lamportSlice' = [lamportSlice EXCEPT ![i].LamportTimestamp = <<t>>]

\* ByLamportTimestamp.Swap
ByLamportTimestampSwap(i, j) ==
    /\ i \in 1..Len(lamportSlice)
    /\ j \in 1..Len(lamportSlice)
    /\ lamportSlice' = SwapElems(lamportSlice, i, j)

\* sort.Sort on the slice
LamportSort ==
    /\ lamportSlice' = SortByLamportTimestamp(lamportSlice)

(***************************************************************************)
(* BlockBody, BlockSignature and Block                                     *)
(* (src/db/badger_database.go:344-664)                                     *)
(***************************************************************************)
\* strings.ToUpper on one character code
ToUpperChar(c) == IF c >= 97 /\ c <= 122 THEN c - 32 ELSE c

\* strings.ToUpper (badger_database.go:399)
ToUpper(s) == [i \in DOMAIN s |-> ToUpperChar(s[i])]

\* crypto.UnmarshalPubkey (badger_database.go:398): <<k>> for the uncompressed
\* bytes of the public key of private key k, <<>> (nil) for other bytes
UnmarshalPubkey(pub) ==
    IF \E k \in PrivKeys : pub = FromECDSAPub(k)
    THEN <<CHOOSE k \in PrivKeys : pub = FromECDSAPub(k)>>
    ELSE <<>>

\* crypto.CompressPubkey (badger_database.go:399) of a public key that is not nil
CompressPubkey(pub) == <<2, pub[1]>>

\* BlockSignature.ValidatorCompressHex (badger_database.go:397-400)
ValidatorCompressHex(bs) == ToUpper(HexEncode(CompressPubkey(UnmarshalPubkey(bs.Validator))))

\* InternalTransactionReceipt as encoded in a block body
EncReceipt(r) == InternalTransactionMarshal(r.InternalTransaction) \o <<IF r.Accepted THEN 1 ELSE 0>>

\* BlockBody.Marshal (badger_database.go:357-364): every field but FrameHash,
\* which is tagged json:"-"
BlockBodyMarshal(bb) ==
    <<bb.Index, bb.RoundReceived>>
        \o EncBytes(bb.StateHash)
        \o EncBytes(bb.PeersHash)
        \o EncList([i \in DOMAIN bb.Transactions |-> EncBytes(bb.Transactions[i])])
        \o EncList([i \in DOMAIN bb.InternalTransactions |->
                        InternalTransactionMarshal(bb.InternalTransactions[i])])
        \o EncList([i \in DOMAIN bb.InternalTransactionReceipts |->
                        EncReceipt(bb.InternalTransactionReceipts[i])])

\* BlockBody.Hash (badger_database.go:377-383)
BlockBodyHash(bb) == Keccak256(BlockBodyMarshal(bb))

\* the order of strings in which the encoder writes the keys of a map
RECURSIVE SeqLess(_, _)
SeqLess(a, b) ==
    IF Len(a) = 0 THEN Len(b) > 0
    ELSE IF Len(b) = 0 THEN FALSE
    ELSE IF a[1] # b[1] THEN a[1] < b[1]
    ELSE SeqLess(Tail(a), Tail(b))

\* the strings of S in that order
RECURSIVE SortedKeys(_)
SortedKeys(S) ==
    IF S = {} THEN <<>>
    ELSE LET m == CHOOSE x \in S : \A y \in S \ {x} : SeqLess(x, y)
         IN  <<m>> \o SortedKeys(S \ {m})

\* the Signatures map as the encoder writes it: the entries in key order
EncSignatures(m) ==
    LET keys == SortedKeys(DOMAIN m)
    IN  EncList([i \in DOMAIN keys |-> EncBytes(keys[i]) \o EncBytes(m[keys[i]])])

\* Block.Marshal (badger_database.go:578-585): the exported fields Body and
\* Signatures; hash, hex and peerSet are not exported
BlockMarshal(b) == BlockBodyMarshal(b.Body) \o EncSignatures(b.Signatures)

\* conf.PeerSet.Hash (badger_database.go:478): a digest of the peers' public keys
PeerSetHash(peerSlice) ==
    Keccak256(Flatten([i \in DOMAIN peerSlice |-> EncBytes(PubKeyBytes(peerSlice[i]))]))

\* NewBlock (badger_database.go:469-498)
NewBlock(blockIndex, roundReceived, frameHash, peerSlice, txs, itxs) ==
    [Body |-> [Index |-> blockIndex,
               RoundReceived |-> roundReceived,
               StateHash |-> <<>>,
               FrameHash |-> frameHash,
               PeersHash |-> PeerSetHash(peerSlice),
               Transactions |-> txs,
               InternalTransactions |-> itxs,
               InternalTransactionReceipts |-> <<>>],
     Signatures |-> EmptyMap,
     hash |-> <<>>,
     hex |-> <<>>]

\* Block.Index (badger_database.go:501-503)
BlockIndex(b) == b.Body.Index

\* Block.clear (badger_database.go:661-664)
BlockClear(b) == [b EXCEPT !.hash = <<>>, !.hex = <<>>]

\* Block.Hash (badger_database.go:598-608): the block afterwards
BlockAfterHash(b) ==
    IF Len(b.hash) = 0 THEN [b EXCEPT !.hash = Keccak256(BlockMarshal(b))] ELSE b

\* Block.Hex (badger_database.go:611-617): the block afterwards
BlockAfterHex(b) ==
    IF b.hex = <<>>
    THEN [BlockAfterHash(b) EXCEPT !.hex = HexEncode(BlockAfterHash(b).hash)]
    ELSE b

\* Block.Hash as a call
BlockHash ==
    /\ block' = BlockAfterHash(block)
    /\ blkRet' = Ret("Hash", TRUE, "nil", BlockAfterHash(block).hash)
    /\ UNCHANGED <<blkSigned, blkLastSet>>

\* Block.Hex as a call
BlockHex ==
    /\ block' = BlockAfterHex(block)
    /\ blkRet' = Ret("Hex", TRUE, "nil", BlockAfterHex(block).hex)
    /\ UNCHANGED <<blkSigned, blkLastSet>>

\* mutant: AppendTransactions keeps the memoized hash
BlockAppendTransactionsNoClear(txs) ==
    /\ Len(block.Body.Transactions) + Len(txs) <= MaxTxs
    /\ block' = [block EXCEPT !.Body.Transactions = @ \o txs]
    /\ blkRet' = Ret("AppendTransactions", TRUE, "nil", <<>>)
    /\ UNCHANGED <<blkSigned, blkLastSet>>

\* Block.AppendTransactions (badger_database.go:572-575)
BlockAppendTransactions(txs) ==
    /\ Len(block.Body.Transactions) + Len(txs) <= MaxTxs
    /\ block' = BlockClear([block EXCEPT !.Body.Transactions = @ \o txs])
    /\ blkRet' = Ret("AppendTransactions", TRUE, "nil", <<>>)
    /\ UNCHANGED <<blkSigned, blkLastSet>>

\* mutant: the signatures are taken over the hash of the whole block
BlockSignBytesWholeBlock(b) == Keccak256(BlockMarshal(b))

\* the digest Sign and Verify work on: b.Body.Hash() (badger_database.go:621, 649)
BlockSignBytes(b) == BlockBodyHash(b.Body)

\* Block.Sign (badger_database.go:620-638): the BlockSignature returned; v is
\* the recovery id crypto.Sign appends
BlockSignResult(b, privKey, v) ==
    [Validator |-> FromECDSAPub(privKey),
     Index |-> BlockIndex(b),
     Signature |-> HexEncode(CryptoSign(BlockSignBytes(b), privKey, v))]

\* Block.Sign as a call; the caller keeps the signature it got
BlockSign(privKey, v) ==
    /\ blkRet' = Ret("Sign", TRUE, "nil", BlockSignResult(block, privKey, v))
    /\ blkSigned' = <<BlockSignResult(block, privKey, v)>>
    /\ UNCHANGED <<block, blkLastSet>>

\* what the caller notes for the validator of bs: the signature it has just set
\* and whether that replaced a different signature of the same validator
LastSetEntry(m, bs) ==
    [Signature |-> bs.Signature,
     Replaced |-> bs.Validator \in DOMAIN m /\ m[bs.Validator].Signature # bs.Signature]

\* mutant: SetSignature keeps the signature a validator already has
BlockSetSignatureKeepFirst(bs) ==
    /\ block' = BlockClear([block EXCEPT
                    !.Signatures = IF ValidatorCompressHex(bs) \in DOMAIN @
                                   THEN @
                                   ELSE MapPut(@, ValidatorCompressHex(bs), bs.Signature)])
    /\ blkRet' = Ret("SetSignature", TRUE, "nil", <<>>)
    /\ blkLastSet' = MapPut(blkLastSet, bs.Validator, LastSetEntry(blkLastSet, bs))
    /\ UNCHANGED blkSigned

\* Block.SetSignature (badger_database.go:641-645); blkLastSet records the call
BlockSetSignature(bs) ==
    /\ block' = BlockClear([block EXCEPT
                    !.Signatures = MapPut(@, ValidatorCompressHex(bs), bs.Signature)])
    /\ blkRet' = Ret("SetSignature", TRUE, "nil", <<>>)
    /\ blkLastSet' = MapPut(blkLastSet, bs.Validator, LastSetEntry(blkLastSet, bs))
    /\ UNCHANGED blkSigned

\* Block.Verify (badger_database.go:648-660): the boolean and the error
BlockVerifyResult(b, sig) ==
    LET s == HexDecode(sig.Signature)
    IN  IF s.err # "nil" THEN [ok |-> FALSE, err |-> s.err]
        ELSE IF Len(s.bytes) = 0 THEN [ok |-> FALSE, err |-> "panic"]
        ELSE [ok |-> VerifySignature(sig.Validator, BlockSignBytes(b),
                                     SubSeq(s.bytes, 1, Len(s.bytes) - 1)),
              err |-> "nil"]

\* Block.Verify as a call
BlockVerify(sig) ==
    /\ blkRet' = Ret("Verify", BlockVerifyResult(block, sig).ok,
                     BlockVerifyResult(block, sig).err, <<>>)
    /\ UNCHANGED <<block, blkSigned, blkLastSet>>

\* Block.GetSignature (badger_database.go:557-569): found, error and signature
BlockGetSignatureResult(b, validator) ==
    IF validator \notin DOMAIN b.Signatures
    THEN Ret("GetSignature", FALSE, "signature not found",
             [Validator |-> <<>>, Index |-> 0, Signature |-> <<>>])
    ELSE Ret("GetSignature", TRUE, "nil",
             [Validator |-> HexDecode(validator).bytes,
              Index |-> BlockIndex(b),
              Signature |-> b.Signatures[validator]])

\* Block.GetSignature as a call
BlockGetSignature(validator) ==
    /\ blkRet' = BlockGetSignatureResult(block, validator)
    /\ UNCHANGED <<block, blkSigned, blkLastSet>>

\* Block.GetSignatures (badger_database.go:541-554): the slices it can return,
\* one per order in which the map can be ranged over
BlockGetSignaturesResults(b) ==
    {[i \in DOMAIN keys |->
         [Validator |-> HexDecode(keys[i]).bytes,
          Index |-> BlockIndex(b),
          Signature |-> b.Signatures[keys[i]]]] :
        keys \in Arrangements(SortedKeys(DOMAIN b.Signatures))}

\* Block.GetSignatures as a call
BlockGetSignatures ==
    /\ \E res \in BlockGetSignaturesResults(block) :
           blkRet' = Ret("GetSignatures", TRUE, "nil", res)
    /\ UNCHANGED <<block, blkSigned, blkLastSet>>

\* the transaction lists handed to AppendTransactions
TxLists == {<<>>, <<TxValue>>}

\* the blocks NewBlock is called for
NewBlocks ==
    {NewBlock(1, 0, <<7>>, <<Peer(FromECDSAPub(1))>>, txs, <<>>) : txs \in TxLists}

\* the signatures handed to SetSignature and Verify: for each validator what
\* Sign returns for block b (with recovery id 0) and the signature string "0x"
BlockSignatureInputs(b) ==
    {BlockSignResult(b, k, 0) : k \in PrivKeys}
    \cup {[Validator |-> FromECDSAPub(k), Index |-> BlockIndex(b), Signature |-> <<48, 120>>] :
             k \in PrivKeys}

\* the map keys handed to GetSignature: the compressed hex key of each validator
ValidatorKeys == {ValidatorCompressHex([Validator |-> FromECDSAPub(k)]) : k \in PrivKeys}

\* no Block call has been made yet
BlockFresh ==
    /\ blkRet = Ret("NewBlock", TRUE, "nil", <<>>)
    /\ blkSigned = <<>>
    /\ blkLastSet = EmptyMap

\* the one block the other specifications carry along
BlockIdle == block = NewBlock(0, 0, <<>>, <<>>, <<>>, <<>>) /\ BlockFresh

(***************************************************************************)
(* SigPool (src/types/caches.go:301-343)                                   *)
(***************************************************************************)
\* the decimal digits fmt.Sprintf("%d") writes for a number that is not negative
RECURSIVE Digits(_)
Digits(n) == IF n < 10 THEN <<48 + n>> ELSE Digits(n \div 10) \o <<48 + (n % 10)>>

\* fmt.Sprintf("%d", n) (badger_database.go:432)
FormatInt(n) == IF n < 0 THEN <<45>> \o Digits(0 - n) ELSE Digits(n)

\* whether BlockSignature.Key returns: crypto.UnmarshalPubkey gives nil for
\* bytes that are no uncompressed public key, its error is dropped
\* (badger_database.go:398) and crypto.CompressPubkey dereferences nil
KeyReturns(bs) == UnmarshalPubkey(bs.Validator) # <<>>

\* BlockSignature.Key (badger_database.go:431-433), when it returns
BlockSignatureKey(bs) == FormatInt(bs.Index) \o <<45>> \o ValidatorCompressHex(bs)

\* mutant: the pool key is the block index alone
SigPoolAddByIndex(blockSignature) ==
    /\ KeyReturns(blockSignature)
    /\ spItems' = MapPut(spItems, FormatInt(blockSignature.Index), blockSignature)
    /\ spRet' = Ret("Add", TRUE, "nil", <<>>)
    /\ spLive' = MapPut(spLive, <<blockSignature.Index, blockSignature.Validator>>,
                        blockSignature)

\* SigPool.Add (caches.go:313-315); the caller notes under (index, validator)
\* the signature it added
SigPoolAdd(blockSignature) ==
    /\ KeyReturns(blockSignature)
    /\ spItems' = MapPut(spItems, BlockSignatureKey(blockSignature), blockSignature)
    /\ spRet' = Ret("Add", TRUE, "nil", <<>>)
    /\ spLive' = MapPut(spLive, <<blockSignature.Index, blockSignature.Validator>>,
                        blockSignature)

\* SigPool.Add of a signature whose Key panics: nothing is stored
SigPoolAddPanic(blockSignature) ==
    /\ ~KeyReturns(blockSignature)
    /\ spRet' = Ret("Add", FALSE, "panic", <<>>)
    /\ UNCHANGED <<spItems, spLive>>

\* the entries of the caller's notes that do not have pool key key
LiveWithoutKey(live, key) ==
    [p \in {q \in DOMAIN live : BlockSignatureKey(live[q]) # key} |-> live[p]]

\* SigPool.Remove (caches.go:318-320)
SigPoolRemove(key) ==
    /\ spItems' = MapDelete(spItems, key)
    /\ spRet' = Ret("Remove", TRUE, "nil", <<>>)
    /\ spLive' = LiveWithoutKey(spLive, key)

\* the loop of RemoveSlice (caches.go:324-326) from position i on: the map it
\* leaves and whether a Key call panicked on the way
RECURSIVE RemoveSliceLoop(_, _, _)
RemoveSliceLoop(m, sigs, i) ==
    IF i > Len(sigs)
    THEN [items |-> m, err |-> "nil"]
    ELSE IF ~KeyReturns(sigs[i])
         THEN [items |-> m, err |-> "panic"]
         ELSE RemoveSliceLoop(MapDelete(m, BlockSignatureKey(sigs[i])), sigs, i + 1)

\* mutant: RemoveSlice removes the key of the first signature only
SigPoolRemoveSliceFirstOnly(sigs) ==
    /\ spItems' = RemoveSliceLoop(spItems, SubSeq(sigs, 1, 1), 1).items
    /\ spRet' = Ret("RemoveSlice", RemoveSliceLoop(spItems, sigs, 1).err = "nil",
                    RemoveSliceLoop(spItems, sigs, 1).err, sigs)
    /\ spLive' = [p \in {q \in DOMAIN spLive :
                            BlockSignatureKey(spLive[q]) \in DOMAIN spItems'}
                     |-> spLive[p]]

\* SigPool.RemoveSlice (caches.go:323-327)
SigPoolRemoveSlice(sigs) ==
    /\ spItems' = RemoveSliceLoop(spItems, sigs, 1).items
    /\ spRet' = Ret("RemoveSlice", RemoveSliceLoop(spItems, sigs, 1).err = "nil",
                    RemoveSliceLoop(spItems, sigs, 1).err, sigs)
    /\ spLive' = [p \in {q \in DOMAIN spLive :
                            BlockSignatureKey(spLive[q]) \in DOMAIN spItems'}
                     |-> spLive[p]]

\* SigPool.Len (caches.go:330-332)
SigPoolLen ==
    /\ spRet' = Ret("Len", TRUE, "nil", Cardinality(DOMAIN spItems))
    /\ UNCHANGED <<spItems, spLive>>

\* NewSigPool (caches.go:306-310)
NewSigPool ==
    /\ spItems = EmptyMap
    /\ spRet = Ret("NewSigPool", TRUE, "nil", <<>>)
    /\ spLive = EmptyMap

\* the block indexes of the pooled signatures
SigIndexes == {1, 10}

\* the signature strings of the pooled signatures
SigStrings == {<<48, 120, 48, 49>>, <<48, 120, 48, 50>>}

\* the bytes of a compressed public key, as Block.GetSignatures returns them
\* in Validator (badger_database.go:545-546)
CompressedValidator == CompressPubkey(<<1>>)

\* the signatures handed to Add: of each validator, for each index, and one
\* whose Validator bytes are a compressed key
PoolSignatures ==
    {[Validator |-> FromECDSAPub(k), Index |-> n, Signature |-> s] :
        k \in PrivKeys, n \in SigIndexes, s \in SigStrings}
    \cup {[Validator |-> CompressedValidator, Index |-> 1, Signature |-> <<48, 120, 48, 49>>]}

\* the batches handed to RemoveSlice: one signature, or two of which the
\* second is of the first validator at index 1
PoolBatches ==
    LET first == {x \in PoolSignatures : x.Signature = <<48, 120, 48, 49>>}
        last  == [Validator |-> FromECDSAPub(1), Index |-> 1, Signature |-> <<48, 120, 48, 49>>]
    IN  {<<a>> : a \in first} \cup {<<a, last>> : a \in first}

\* the keys handed to Remove
PoolKeys == {BlockSignatureKey(bs) : bs \in {x \in PoolSignatures : KeyReturns(x)}}

(***************************************************************************)
(* ParticipantEventsCache (src/types/caches.go:34-125) over the rolling    *)
(* index map of package common, one rolling index per participant id.      *)
(***************************************************************************)
\* common.NewRollingIndex: no item, last index -1
NewRollingIndex == [lastIndex |-> 0 - 1, items |-> <<>>]

\* the index of the oldest item a rolling index retains
OldestCachedIndex(ri) == ri.lastIndex - Len(ri.items) + 1

\* RollingIndex.Get: the items after skipIndex, TooLate when the item after
\* skipIndex is no longer retained
RollingIndexGet(ri, skipIndex) ==
    IF skipIndex > ri.lastIndex
    THEN [val |-> <<>>, err |-> "nil"]
    ELSE IF skipIndex + 1 < OldestCachedIndex(ri)
         THEN [val |-> <<>>, err |-> "TooLate"]
         ELSE [val |-> SubSeq(ri.items, skipIndex - OldestCachedIndex(ri) + 2, Len(ri.items)),
               err |-> "nil"]

\* RollingIndex.GetItem
RollingIndexGetItem(ri, index) ==
    IF index < OldestCachedIndex(ri)
    THEN [val |-> <<>>, err |-> "TooLate"]
    ELSE IF index - OldestCachedIndex(ri) >= Len(ri.items)
         THEN [val |-> <<>>, err |-> "KeyNotFound"]
         ELSE [val |-> ri.items[index - OldestCachedIndex(ri) + 1], err |-> "nil"]

\* RollingIndex.Roll: the older half of a full window is dropped
RollingIndexRoll(ri) == [ri EXCEPT !.items = SubSeq(ri.items, CacheSize + 1, Len(ri.items))]

\* RollingIndex.Set: append at the next index (any index on an empty log),
\* overwrite a retained index, reject a gap or an evicted index
RollingIndexSet(ri, item, index) ==
    IF 0 <= ri.lastIndex /\ index > ri.lastIndex + 1
    THEN [ri |-> ri, err |-> "SkippedIndex"]
    ELSE IF ri.lastIndex < 0 \/ index = ri.lastIndex + 1
         THEN LET rolled == IF Len(ri.items) >= 2 * CacheSize THEN RollingIndexRoll(ri) ELSE ri
              IN  [ri |-> [lastIndex |-> index, items |-> Append(rolled.items, item)],
                   err |-> "nil"]
         ELSE IF index < OldestCachedIndex(ri)
              THEN [ri |-> ri, err |-> "TooLate"]
              ELSE [ri |-> [ri EXCEPT !.items[index - OldestCachedIndex(ri) + 1] = item],
                    err |-> "nil"]

\* ParticipantEventsCache.participantID (caches.go:55-62): the id of the peer
\* registered under the hex key, or UnknownParticipant
ParticipantID(participant) ==
    IF participant \in DOMAIN pecParticipants
    THEN [id |-> PeerID(pecParticipants[participant]), err |-> "nil"]
    ELSE [id |-> 0, err |-> "UnknownParticipant"]

\* ParticipantEventsCache.AddPeer (caches.go:49-52): the roster gets the peer,
\* RollingIndexMap.AddKey fails for an id it already has
ParticipantEventsCacheAddPeer(peer) ==
    /\ pecParticipants' = MapPut(pecParticipants, PubKeyString(peer), peer)
    /\ rim' = IF PeerID(peer) \in DOMAIN rim THEN rim
              ELSE MapPut(rim, PeerID(peer), NewRollingIndex)
    /\ pecRet' = Ret("AddPeer", PeerID(peer) \notin DOMAIN rim,
                     IF PeerID(peer) \in DOMAIN rim THEN "KeyAlreadyExists" ELSE "nil", <<>>)
    /\ pecRim' = "AddKey"
    /\ pecHigh' = IF PeerID(peer) \in DOMAIN rim THEN pecHigh
                  ELSE MapPut(pecHigh, PeerID(peer), 0 - 1)

\* mutant: Get hands skipIndex - 1 to the rolling index map
ParticipantEventsCacheGetFromSkip(participant, skipIndex) ==
    LET pid == ParticipantID(participant)
        pe  == RollingIndexGet(rim[pid.id], skipIndex - 1)
    IN  /\ pecRet' = IF pid.err # "nil"
                     THEN [op |-> "Get", ok |-> FALSE, err |-> pid.err, val |-> <<>>,
                           participant |-> participant, arg |-> skipIndex]
                     ELSE [op |-> "Get", ok |-> pe.err = "nil", err |-> pe.err, val |-> pe.val,
                           participant |-> participant, arg |-> skipIndex]
        /\ pecRim' = IF pid.err # "nil" THEN "none" ELSE "Get"
        /\ UNCHANGED <<pecParticipants, rim, pecHigh>>

\* ParticipantEventsCache.Get (caches.go:65-81)
ParticipantEventsCacheGet(participant, skipIndex) ==
    LET pid == ParticipantID(participant)
        pe  == RollingIndexGet(rim[pid.id], skipIndex)
    IN  /\ pecRet' = IF pid.err # "nil"
                     THEN [op |-> "Get", ok |-> FALSE, err |-> pid.err, val |-> <<>>,
                           participant |-> participant, arg |-> skipIndex]
                     ELSE [op |-> "Get", ok |-> pe.err = "nil", err |-> pe.err, val |-> pe.val,
                           participant |-> participant, arg |-> skipIndex]
        /\ pecRim' = IF pid.err # "nil" THEN "none" ELSE "Get"
        /\ UNCHANGED <<pecParticipants, rim, pecHigh>>

\* ParticipantEventsCache.GetItem (caches.go:84-95)
ParticipantEventsCacheGetItem(participant, index) ==
    LET pid  == ParticipantID(participant)
        item == RollingIndexGetItem(rim[pid.id], index)
    IN  /\ pecRet' = IF pid.err # "nil"
                     THEN [op |-> "GetItem", ok |-> FALSE, err |-> pid.err, val |-> <<>>,
                           participant |-> participant, arg |-> index]
                     ELSE [op |-> "GetItem", ok |-> item.err = "nil", err |-> item.err,
                           val |-> item.val, participant |-> participant, arg |-> index]
        /\ pecRim' = IF pid.err # "nil" THEN "none" ELSE "GetItem"
        /\ UNCHANGED <<pecParticipants, rim, pecHigh>>

\* ParticipantEventsCache.GetLast (caches.go:98-110): the last item of the
\* window, Empty when the log has none
ParticipantEventsCacheGetLast(participant) ==
    LET pid == ParticipantID(participant)
    IN  /\ pecRet' = IF pid.err # "nil"
                     THEN [op |-> "GetLast", ok |-> FALSE, err |-> pid.err, val |-> <<>>,
                           participant |-> participant, arg |-> 0]
                     ELSE IF Len(rim[pid.id].items) = 0
                          THEN [op |-> "GetLast", ok |-> FALSE, err |-> "Empty", val |-> <<>>,
                                participant |-> participant, arg |-> 0]
                          ELSE [op |-> "GetLast", ok |-> TRUE, err |-> "nil",
                                val |-> rim[pid.id].items[Len(rim[pid.id].items)],
                                participant |-> participant, arg |-> 0]
        /\ pecRim' = IF pid.err # "nil" THEN "none" ELSE "GetLast"
        /\ UNCHANGED <<pecParticipants, rim, pecHigh>>

\* mutant: Set writes the log of the first registered key when the
\* participant is unknown
ParticipantEventsCacheSetDefaultID(participant, hash, index) ==
    LET pid == ParticipantID(participant)
        id  == IF pid.err # "nil" THEN Min(DOMAIN rim) ELSE pid.id
        set == RollingIndexSet(rim[id], hash, index)
    IN  /\ DOMAIN rim # {}
        /\ rim' = [rim EXCEPT ![id] = set.ri]
        /\ pecRet' = [op |-> "Set", ok |-> pid.err = "nil" /\ set.err = "nil",
                      err |-> IF pid.err # "nil" THEN pid.err ELSE set.err, val |-> <<>>,
                      participant |-> participant, arg |-> index]
        /\ pecRim' = IF pid.err # "nil" THEN "none" ELSE "Set"
        /\ pecHigh' = IF pecRet'.ok /\ index > pecHigh[pid.id]
                      THEN [pecHigh EXCEPT ![pid.id] = index]
                      ELSE pecHigh
        /\ UNCHANGED pecParticipants

\* ParticipantEventsCache.Set (caches.go:113-120)
ParticipantEventsCacheSet(participant, hash, index) ==
    LET pid == ParticipantID(participant)
        set == RollingIndexSet(rim[pid.id], hash, index)
    IN  /\ rim' = IF pid.err # "nil" THEN rim ELSE [rim EXCEPT ![pid.id] = set.ri]
        /\ pecRet' = IF pid.err # "nil"
                     THEN [op |-> "Set", ok |-> FALSE, err |-> pid.err, val |-> <<>>,
                           participant |-> participant, arg |-> index]
                     ELSE [op |-> "Set", ok |-> set.err = "nil", err |-> set.err, val |-> <<>>,
                           participant |-> participant, arg |-> index]
        /\ pecRim' = IF pid.err # "nil" THEN "none" ELSE "Set"
        /\ pecHigh' = IF pecRet'.ok /\ index > pecHigh[pid.id]
                      THEN [pecHigh EXCEPT ![pid.id] = index]
                      ELSE pecHigh
        /\ UNCHANGED pecParticipants

\* RollingIndexMap.Known: key -> last index
RollingIndexMapKnown(m) == [id \in DOMAIN m |-> m[id].lastIndex]

\* ParticipantEventsCache.Known (caches.go:123-125)
ParticipantEventsCacheKnown ==
    /\ pecRet' = [op |-> "Known", ok |-> TRUE, err |-> "nil", val |-> RollingIndexMapKnown(rim),
                  participant |-> <<>>, arg |-> 0]
    /\ pecRim' = "Known"
    /\ UNCHANGED <<pecParticipants, rim, pecHigh>>

\* NewParticipantEventsCache (caches.go:41-46)
NewParticipantEventsCache ==
    /\ pecParticipants = EmptyMap
    /\ rim = EmptyMap
    /\ pecRet = [op |-> "NewParticipantEventsCache", ok |-> TRUE, err |-> "nil", val |-> <<>>,
                 participant |-> <<>>, arg |-> 0]
    /\ pecRim = "none"
    /\ pecHigh = EmptyMap

\* the peers of the roster
Participants == {1, 2}

\* the hex keys handed to the cache: of the participants and of nobody
ParticipantKeys == {PubKeyString(p) : p \in Participants} \cup {PubKeyString(0)}

\* the event reference the participants' event of an index has: "h0", "h1", ...
HashAt(index) == <<104>> \o Digits(index)

\* the indexes handed to Set and GetItem, the skip indexes handed to Get
EventIndexes == 0..MaxIndex
SkipIndexes == (0 - 1)..MaxIndex

(***************************************************************************)
(* The key-value backends (src/db/badger_database.go:1-281): BadgerDatabase *)
(* over a badger store and MemDatabase, a map behind a sync.RWMutex, used   *)
(* by concurrent callers.  A method of MemDatabase is a sequence of steps   *)
(* of its caller: taking the lock, and the access to the map followed by    *)
(* the deferred unlock.                                                     *)
(***************************************************************************)
\* the goroutines that call the databases
Callers == {1, 2}

\* badger.ErrKeyNotFound, which db.ErrKeyNotFound is (badger_database.go:7),
\* and the error value MemDatabase.Get makes (badger_database.go:214)
ErrKeyNotFound == "badger.ErrKeyNotFound"
ErrorsNewNotFound == "errors.New(not found)"

\* a caller that is in no MemDatabase method
Idle == [op |-> "idle", key |-> <<>>, val |-> <<>>, at |-> "idle", n |-> 0]

\* what a database method returned to its caller
DbRet(op, caller, ok, err, val) ==
    [op |-> op, caller |-> caller, ok |-> ok, err |-> err, val |-> val]

\* sync.RWMutex: Lock waits until nobody holds the lock, RLock until no writer does
CanLock == rwLock.writer = 0 /\ rwLock.readers = {}
CanRLock == rwLock.writer = 0

\* db.lock.Lock() at the start of a writing method (badger_database.go:192, 229, 268)
LockFor(p, op, key, val) ==
    /\ pc[p] = Idle
    /\ CanLock
    /\ rwLock' = [rwLock EXCEPT !.writer = p]
    /\ pc' = [pc EXCEPT ![p] = [op |-> op, key |-> key, val |-> val, at |-> "writing", n |-> 0]]

\* db.lock.RLock() at the start of a reading method (badger_database.go:200, 208, 218)
RLockFor(p, op, key) ==
    /\ pc[p] = Idle
    /\ CanRLock
    /\ rwLock' = [rwLock EXCEPT !.readers = @ \cup {p}]
    /\ pc' = [pc EXCEPT ![p] = [op |-> op, key |-> key, val |-> <<>>, at |-> "reading", n |-> 0]]

\* the deferred Unlock / RUnlock when the method returns
Unlock(p) ==
    /\ rwLock' = [writer |-> IF rwLock.writer = p THEN 0 ELSE rwLock.writer,
                  readers |-> rwLock.readers \ {p}]
    /\ pc' = [pc EXCEPT ![p] = Idle]

\* MemDatabase.Put (badger_database.go:191-197)
MemDatabasePutLock(p, key, value) ==
    /\ LockFor(p, "Put", key, value)
    /\ UNCHANGED <<memDb, dbRet, memBatch, batchCancelled, dbAtCommit, badgerDb>>

MemDatabasePut(p) ==
    /\ pc[p].op = "Put"
    /\ memDb' = MapPut(memDb, pc[p].key, pc[p].val)
    /\ dbRet' = DbRet("MemDatabase.Put", p, TRUE, "nil", <<>>)
    /\ Unlock(p)
    /\ UNCHANGED <<memBatch, batchCancelled, dbAtCommit, badgerDb>>

\* MemDatabase.Has (badger_database.go:199-205)
MemDatabaseHasRLock(p, key) ==
    /\ RLockFor(p, "Has", key)
    /\ UNCHANGED <<memDb, dbRet, memBatch, batchCancelled, dbAtCommit, badgerDb>>

MemDatabaseHas(p) ==
    /\ pc[p].op = "Has"
    /\ dbRet' = DbRet("MemDatabase.Has", p, pc[p].key \in DOMAIN memDb, "nil", <<>>)
    /\ Unlock(p)
    /\ UNCHANGED <<memDb, memBatch, batchCancelled, dbAtCommit, badgerDb>>

\* MemDatabase.Get (badger_database.go:207-215)
MemDatabaseGetRLock(p, key) ==
    /\ RLockFor(p, "Get", key)
    /\ UNCHANGED <<memDb, dbRet, memBatch, batchCancelled, dbAtCommit, badgerDb>>

MemDatabaseGet(p) ==
    /\ pc[p].op = "Get"
    /\ dbRet' = IF pc[p].key \in DOMAIN memDb
                THEN DbRet("MemDatabase.Get", p, TRUE, "nil", memDb[pc[p].key])
                ELSE DbRet("MemDatabase.Get", p, FALSE, ErrorsNewNotFound, <<>>)
    /\ Unlock(p)
    /\ UNCHANGED <<memDb, memBatch, batchCancelled, dbAtCommit, badgerDb>>

\* MemDatabase.Keys (badger_database.go:217-226): the keys in the order the
\* map iteration gives, returned here as their set
MemDatabaseKeysRLock(p) ==
    /\ RLockFor(p, "Keys", <<>>)
    /\ UNCHANGED <<memDb, dbRet, memBatch, batchCancelled, dbAtCommit, badgerDb>>

MemDatabaseKeys(p) ==
    /\ pc[p].op = "Keys"
    /\ dbRet' = DbRet("MemDatabase.Keys", p, TRUE, "nil", DOMAIN memDb)
    /\ Unlock(p)
    /\ UNCHANGED <<memDb, memBatch, batchCancelled, dbAtCommit, badgerDb>>

\* MemDatabase.Delete (badger_database.go:228-234)
MemDatabaseDeleteLock(p, key) ==
    /\ LockFor(p, "Delete", key, <<>>)
    /\ UNCHANGED <<memDb, dbRet, memBatch, batchCancelled, dbAtCommit, badgerDb>>

MemDatabaseDelete(p) ==
    /\ pc[p].op = "Delete"
    /\ memDb' = MapDelete(memDb, pc[p].key)
    /\ dbRet' = DbRet("MemDatabase.Delete", p, TRUE, "nil", <<>>)
    /\ Unlock(p)
    /\ UNCHANGED <<memBatch, batchCancelled, dbAtCommit, badgerDb>>

\* MemDatabase.Len (badger_database.go:240): len(db.db) with no lock taken;
\* the caller starts reading the map ...
MemDatabaseLenBegin(p) ==
    /\ pc[p] = Idle
    /\ pc' = [pc EXCEPT ![p] = [op |-> "Len", key |-> <<>>, val |-> <<>>, at |-> "reading", n |-> 0]]
    /\ UNCHANGED <<memDb, rwLock, dbRet, memBatch, batchCancelled, dbAtCommit, badgerDb>>

\* the key sets the map can have once the write that the holder of the write
\* lock is about to make is done
KeysAfterWriteInProgress ==
    IF rwLock.writer = 0 THEN {}
    ELSE LET w == pc[rwLock.writer]
         IN  IF w.op = "Put" THEN {DOMAIN memDb \cup {w.key}}
             ELSE IF w.op = "Delete" THEN {DOMAIN memDb \ {w.key}}
             ELSE IF w.n < Len(memBatch)
                  THEN {IF memBatch[w.n + 1].del
                        THEN DOMAIN memDb \ {memBatch[w.n + 1].k}
                        ELSE DOMAIN memDb \cup {memBatch[w.n + 1].k}}
                  ELSE {}

\* ... and returns a length: unsynchronized with a write in progress, the read
\* gives the length before or after that write
MemDatabaseLen(p) ==
    /\ pc[p].op = "Len"
    /\ \E keys \in {DOMAIN memDb} \cup KeysAfterWriteInProgress :
           dbRet' = DbRet("MemDatabase.Len", p, TRUE, "nil", Cardinality(keys))
    /\ pc' = [pc EXCEPT ![p] = Idle]
    /\ UNCHANGED <<memDb, rwLock, memBatch, batchCancelled, dbAtCommit, badgerDb>>

\* MemDatabase.NewBatch (badger_database.go:236-238), called by the first caller
MemDatabaseNewBatch ==
    /\ pc[1] = Idle
    /\ memBatch' = <<>>
    /\ batchCancelled' = FALSE
    /\ dbRet' = DbRet("MemDatabase.NewBatch", 1, TRUE, "nil", <<>>)
    /\ UNCHANGED <<memDb, rwLock, pc, dbAtCommit, badgerDb>>

\* memBatch.Set (badger_database.go:255-259)
memBatchSet(key, value) ==
    /\ pc[1] = Idle
    /\ Len(memBatch) < MaxBatch
    /\ memBatch' = Append(memBatch, [k |-> key, v |-> value, del |-> FALSE])
    /\ dbRet' = DbRet("memBatch.Set", 1, TRUE, "nil", <<>>)
    /\ UNCHANGED <<memDb, rwLock, pc, batchCancelled, dbAtCommit, badgerDb>>

\* memBatch.Delete (badger_database.go:261-265)
memBatchDelete(key) ==
    /\ pc[1] = Idle
    /\ Len(memBatch) < MaxBatch
    /\ memBatch' = Append(memBatch, [k |-> key, v |-> <<>>, del |-> TRUE])
    /\ dbRet' = DbRet("memBatch.Delete", 1, TRUE, "nil", <<>>)
    /\ UNCHANGED <<memDb, rwLock, pc, batchCancelled, dbAtCommit, badgerDb>>

\* memBatch.Commit (badger_database.go:267-279): the lock is taken, ...
memBatchCommitLock ==
    /\ LockFor(1, "Commit", <<>>, <<>>)
    /\ dbAtCommit' = memDb
    /\ UNCHANGED <<memDb, dbRet, memBatch, batchCancelled, badgerDb>>

\* ... the staged writes are applied one after the other (the loop at 271-277), ...
memBatchCommitWrite ==
    /\ pc[1].op = "Commit"
    /\ pc[1].n < Len(memBatch)
    /\ memDb' = IF memBatch[pc[1].n + 1].del
                THEN MapDelete(memDb, memBatch[pc[1].n + 1].k)
                ELSE MapPut(memDb, memBatch[pc[1].n + 1].k, memBatch[pc[1].n + 1].v)
    /\ pc' = [pc EXCEPT ![1].n = @ + 1]
    /\ UNCHANGED <<rwLock, dbRet, memBatch, batchCancelled, dbAtCommit, badgerDb>>

\* ... and the method returns, unlocking
memBatchCommit ==
    /\ pc[1].op = "Commit"
    /\ pc[1].n = Len(memBatch)
    /\ dbRet' = DbRet("memBatch.Commit", 1, TRUE, "nil", <<>>)
    /\ Unlock(1)
    /\ UNCHANGED <<memDb, memBatch, batchCancelled, dbAtCommit, badgerDb>>

\* memBatch.Cancel (badger_database.go:281): an empty body; that it was called
\* is noted for the caller
memBatchCancel ==
    /\ pc[1] = Idle
    /\ batchCancelled' = TRUE
    /\ dbRet' = DbRet("memBatch.Cancel", 1, TRUE, "nil", <<>>)
    /\ UNCHANGED <<memDb, rwLock, pc, memBatch, dbAtCommit, badgerDb>>

\* BadgerDatabase.Put (badger_database.go:41-45): one update transaction
BadgerDatabasePut(p, key, val) ==
    /\ pc[p] = Idle
    /\ badgerDb' = MapPut(badgerDb, key, val)
    /\ dbRet' = DbRet("BadgerDatabase.Put", p, TRUE, "nil", <<>>)
    /\ UNCHANGED <<memDb, rwLock, pc, memBatch, batchCancelled, dbAtCommit>>

\* BadgerDatabase.Get (badger_database.go:47-55): txn.Get gives
\* badger.ErrKeyNotFound for a key that is not stored
BadgerDatabaseGet(p, key) ==
    /\ pc[p] = Idle
    /\ dbRet' = IF key \in DOMAIN badgerDb
                THEN DbRet("BadgerDatabase.Get", p, TRUE, "nil", badgerDb[key])
                ELSE DbRet("BadgerDatabase.Get", p, FALSE, ErrKeyNotFound, <<>>)
    /\ UNCHANGED <<memDb, rwLock, pc, memBatch, batchCancelled, dbAtCommit, badgerDb>>

\* BadgerDatabase.Has (badger_database.go:57-69)
BadgerDatabaseHas(p, key) ==
    /\ pc[p] = Idle
    /\ dbRet' = DbRet("BadgerDatabase.Has", p, key \in DOMAIN badgerDb, "nil", <<>>)
    /\ UNCHANGED <<memDb, rwLock, pc, memBatch, batchCancelled, dbAtCommit, badgerDb>>

\* BadgerDatabase.Delete (badger_database.go:71-75)
BadgerDatabaseDelete(p, key) ==
    /\ pc[p] = Idle
    /\ badgerDb' = MapDelete(badgerDb, key)
    /\ dbRet' = DbRet("BadgerDatabase.Delete", p, TRUE, "nil", <<>>)
    /\ UNCHANGED <<memDb, rwLock, pc, memBatch, batchCancelled, dbAtCommit>>

\* NewMemDatabase (badger_database.go:179-183) and a freshly opened badger
\* store (badger_database.go:16-31), with a new batch and no caller in a method
NewDatabases ==
    /\ memDb = EmptyMap
    /\ rwLock = [writer |-> 0, readers |-> {}]
    /\ pc = [p \in Callers |-> Idle]
    /\ memBatch = <<>>
    /\ batchCancelled = FALSE
    /\ dbAtCommit = EmptyMap
    /\ badgerDb = EmptyMap
    /\ dbRet = DbRet("NewMemDatabase", 0, TRUE, "nil", <<>>)

\* the keys and the values the callers use
DbKeys == {<<107, 49>>, <<107, 50>>}
DbValue(key) == <<118>> \o key

\* the writes the first caller stages
StagedSets == {<<107, 49>>, <<107, 50>>}
StagedDeletes == {<<107, 49>>}

(***************************************************************************)
(* Specifications: one per component.  Each leaves the variables of the    *)
(* other components as they are initially.                                 *)
(***************************************************************************)
\* the components the specifications above the SigPool carry along
MoreIdle == NewSigPool /\ NewParticipantEventsCache /\ NewDatabases

\* the state of the components every SigPool specification carries along
CoreIdle == NewPeerSetCache /\ NewPendingRoundsCache /\ lamportSlice = <<>> /\ EventIdle
                /\ BlockIdle /\ ItxIdle

CachesInit == NewPeerSetCache /\ NewPendingRoundsCache /\ lamportSlice = <<>> /\ BlockIdle /\ ItxIdle
                  /\ MoreIdle

\* the initial state of the specifications that do not act on an event
IdleInit == CachesInit /\ EventIdle

PeerSetNext ==
    \E round \in Rounds, peerSet \in PeerSetValues :
        PeerSetCacheSet(round, peerSet) /\ UNCHANGED <<prVars, evVars, stVars, bkVars, ixVars, moreVars>>

SpecPeerSet == IdleInit /\ [][PeerSetNext]_vars

PendingNext ==
    \/ \E index \in Indexes, decided \in BOOLEAN :
           PendingRoundsCacheSet(index, decided) /\ UNCHANGED <<psVars, evVars, stVars, bkVars, ixVars, moreVars>>
    \/ \E decidedRounds \in RoundLists :
           PendingRoundsCacheUpdate(decidedRounds) /\ UNCHANGED <<psVars, evVars, stVars, bkVars, ixVars, moreVars>>
    \/ \E processedRounds \in RoundLists :
           PendingRoundsCacheClean(processedRounds) /\ UNCHANGED <<psVars, evVars, stVars, bkVars, ixVars, moreVars>>

SpecPending == IdleInit /\ [][PendingNext]_vars

\* signing and verifying one event
EventInit == CachesInit /\ event \in NewEvents /\ EventFresh

EventNext ==
    \/ \E privKey \in PrivKeys, v \in RecoveryIDs :
           EventSign(privKey, v) /\ UNCHANGED <<psVars, prVars, stVars, bkVars, ixVars, moreVars>>
    \/ EventVerify /\ UNCHANGED <<psVars, prVars, stVars, bkVars, ixVars, moreVars>>
    \/ \E w \in WireInputs :
           EventSetWireInfo(w[1], w[2], w[3], w[4]) /\ UNCHANGED <<psVars, prVars, stVars, bkVars, ixVars, moreVars>>
    \/ \E signature \in SignatureInputs :
           EventSetSignature(signature) /\ UNCHANGED <<psVars, prVars, stVars, bkVars, ixVars, moreVars>>
    \/ \E i \in 1..Max({Len(itxs) : itxs \in ItxLists}) :
           InternalTransactionVerifyCall(i) /\ UNCHANGED <<psVars, prVars, stVars, bkVars, ixVars, moreVars>>
    \/ EventSelfParent /\ UNCHANGED <<psVars, prVars, stVars, bkVars, ixVars, moreVars>>
    \/ EventOtherParent /\ UNCHANGED <<psVars, prVars, stVars, bkVars, ixVars, moreVars>>

SpecEvent == EventInit /\ [][EventNext]_vars

\* hashing one event that carries no internal transaction
EventHashInit ==
    /\ CachesInit
    /\ event \in {e \in NewEvents : e.Body.InternalTransactions = <<>>}
    /\ EventFresh

EventHashNext ==
    \/ EventGetHash /\ UNCHANGED <<psVars, prVars, stVars, bkVars, ixVars, moreVars>>
    \/ EventGetHex /\ UNCHANGED <<psVars, prVars, stVars, bkVars, ixVars, moreVars>>
    \/ \E w \in WireInputs :
           EventSetWireInfo(w[1], w[2], w[3], w[4]) /\ UNCHANGED <<psVars, prVars, stVars, bkVars, ixVars, moreVars>>
    \/ EventAppendTransaction(TxValue) /\ UNCHANGED <<psVars, prVars, stVars, bkVars, ixVars, moreVars>>

SpecEventHash == EventHashInit /\ [][EventHashNext]_vars


\* building, swapping and sorting one slice of events
SortNext ==
    \/ \E signature \in SortSignatures :
           LamportAppend(signature) /\ UNCHANGED <<psVars, prVars, evVars, bkVars, ixVars, moreVars>>
    \/ \E i \in 1..MaxSort, t \in Timestamps :
           EventSetLamportTimestamp(i, t) /\ UNCHANGED <<psVars, prVars, evVars, bkVars, ixVars, moreVars>>
    \/ \E i \in 1..MaxSort, j \in 1..MaxSort :
           ByLamportTimestampSwap(i, j) /\ UNCHANGED <<psVars, prVars, evVars, bkVars, ixVars, moreVars>>
    \/ LamportSort /\ UNCHANGED <<psVars, prVars, evVars, bkVars, ixVars, moreVars>>

SpecSort == IdleInit /\ [][SortNext]_vars


\* hashing one block while transactions and signatures are added
BlockHashInit == NewPeerSetCache /\ NewPendingRoundsCache /\ lamportSlice = <<>> /\ EventIdle /\ ItxIdle
                     /\ MoreIdle
                     /\ block \in NewBlocks /\ BlockFresh

BlockHashNext ==
    \/ BlockHash /\ UNCHANGED <<psVars, prVars, evVars, stVars, ixVars, moreVars>>
    \/ BlockHex /\ UNCHANGED <<psVars, prVars, evVars, stVars, ixVars, moreVars>>
    \/ \E txs \in TxLists :
           BlockAppendTransactions(txs) /\ UNCHANGED <<psVars, prVars, evVars, stVars, ixVars, moreVars>>
    \/ \E bs \in BlockSignatureInputs(block) :
           BlockSetSignature(bs) /\ UNCHANGED <<psVars, prVars, evVars, stVars, ixVars, moreVars>>

SpecBlockHash == BlockHashInit /\ [][BlockHashNext]_vars

\* signing one block and collecting the validators' signatures
BlockSignInit == BlockHashInit

BlockSignNext ==
    \/ \E privKey \in PrivKeys, v \in RecoveryIDs :
           BlockSign(privKey, v) /\ UNCHANGED <<psVars, prVars, evVars, stVars, ixVars, moreVars>>
    \/ \E bs \in BlockSignatureInputs(block) :
           BlockSetSignature(bs) /\ UNCHANGED <<psVars, prVars, evVars, stVars, ixVars, moreVars>>
    \/ \E sig \in BlockSignatureInputs(block) :
           BlockVerify(sig) /\ UNCHANGED <<psVars, prVars, evVars, stVars, ixVars, moreVars>>
    \/ \E validator \in ValidatorKeys :
           BlockGetSignature(validator) /\ UNCHANGED <<psVars, prVars, evVars, stVars, ixVars, moreVars>>
    \/ BlockGetSignatures /\ UNCHANGED <<psVars, prVars, evVars, stVars, ixVars, moreVars>>

SpecBlockSign == BlockSignInit /\ [][BlockSignNext]_vars


\* signing, changing and verifying one internal transaction
ItxInit == NewPeerSetCache /\ NewPendingRoundsCache /\ lamportSlice = <<>> /\ EventIdle
               /\ BlockIdle /\ internalTx \in NewInternalTransactions /\ ItxFresh /\ MoreIdle

ItxNext ==
    \/ \E privKey \in PrivKeys, v \in RecoveryIDs :
           InternalTransactionSignCall(privKey, v)
               /\ UNCHANGED <<psVars, prVars, evVars, stVars, bkVars, moreVars>>
    \/ InternalTransactionVerifyItx /\ UNCHANGED <<psVars, prVars, evVars, stVars, bkVars, moreVars>>
    \/ \E tType \in {0, 1} :
           ItxSetType(tType) /\ UNCHANGED <<psVars, prVars, evVars, stVars, bkVars, moreVars>>
    \/ \E k \in PrivKeys :
           ItxSetPeer(Peer(FromECDSAPub(k))) /\ UNCHANGED <<psVars, prVars, evVars, stVars, bkVars, moreVars>>
    \/ \E signature \in SignatureInputs :
           ItxSetSignature(signature) /\ UNCHANGED <<psVars, prVars, evVars, stVars, bkVars, moreVars>>
    \/ ItxSetRecoveryByte(7) /\ UNCHANGED <<psVars, prVars, evVars, stVars, bkVars, moreVars>>

SpecItx == ItxInit /\ [][ItxNext]_vars


\* adding to and removing from one SigPool
SigPoolInit == CoreIdle /\ NewSigPool /\ NewParticipantEventsCache /\ NewDatabases

SigPoolNext ==
    \/ \E blockSignature \in PoolSignatures :
           SigPoolAdd(blockSignature) /\ UNCHANGED <<coreVars, peVars, dbVars>>
    \/ \E blockSignature \in PoolSignatures :
           SigPoolAddPanic(blockSignature) /\ UNCHANGED <<coreVars, peVars, dbVars>>
    \/ \E key \in PoolKeys : SigPoolRemove(key) /\ UNCHANGED <<coreVars, peVars, dbVars>>
    \/ \E sigs \in PoolBatches : SigPoolRemoveSlice(sigs) /\ UNCHANGED <<coreVars, peVars, dbVars>>
    \/ SigPoolLen /\ UNCHANGED <<coreVars, peVars, dbVars>>

SpecSigPool == SigPoolInit /\ [][SigPoolNext]_vars


\* registering participants, writing and reading their logs
ParticipantEventsInit == CoreIdle /\ NewSigPool /\ NewParticipantEventsCache /\ NewDatabases

ParticipantEventsNext ==
    \/ \E peer \in Participants :
           ParticipantEventsCacheAddPeer(peer) /\ UNCHANGED <<coreVars, spVars, dbVars>>
    \/ \E participant \in ParticipantKeys, skipIndex \in SkipIndexes :
           ParticipantEventsCacheGet(participant, skipIndex) /\ UNCHANGED <<coreVars, spVars, dbVars>>
    \/ \E participant \in ParticipantKeys, index \in EventIndexes :
           ParticipantEventsCacheGetItem(participant, index) /\ UNCHANGED <<coreVars, spVars, dbVars>>
    \/ \E participant \in ParticipantKeys :
           ParticipantEventsCacheGetLast(participant) /\ UNCHANGED <<coreVars, spVars, dbVars>>
    \/ \E participant \in ParticipantKeys, index \in EventIndexes :
           ParticipantEventsCacheSet(participant, HashAt(index), index)
               /\ UNCHANGED <<coreVars, spVars, dbVars>>
    \/ ParticipantEventsCacheKnown /\ UNCHANGED <<coreVars, spVars, dbVars>>

SpecParticipantEvents == ParticipantEventsInit /\ [][ParticipantEventsNext]_vars


\* the components the database specifications carry along
DatabaseInit == CoreIdle /\ NewSigPool /\ NewParticipantEventsCache /\ NewDatabases

\* one caller reading and writing both backends
KeyValueNext ==
    \/ \E key \in DbKeys : MemDatabasePutLock(1, key, DbValue(key)) /\ UNCHANGED <<coreVars, spVars, peVars>>
    \/ MemDatabasePut(1) /\ UNCHANGED <<coreVars, spVars, peVars>>
    \/ \E key \in DbKeys : MemDatabaseGetRLock(1, key) /\ UNCHANGED <<coreVars, spVars, peVars>>
    \/ MemDatabaseGet(1) /\ UNCHANGED <<coreVars, spVars, peVars>>
    \/ \E key \in DbKeys : MemDatabaseHasRLock(1, key) /\ UNCHANGED <<coreVars, spVars, peVars>>
    \/ MemDatabaseHas(1) /\ UNCHANGED <<coreVars, spVars, peVars>>
    \/ \E key \in DbKeys : MemDatabaseDeleteLock(1, key) /\ UNCHANGED <<coreVars, spVars, peVars>>
    \/ MemDatabaseDelete(1) /\ UNCHANGED <<coreVars, spVars, peVars>>
    \/ \E key \in DbKeys : BadgerDatabasePut(1, key, DbValue(key)) /\ UNCHANGED <<coreVars, spVars, peVars>>
    \/ \E key \in DbKeys : BadgerDatabaseGet(1, key) /\ UNCHANGED <<coreVars, spVars, peVars>>
    \/ \E key \in DbKeys : BadgerDatabaseHas(1, key) /\ UNCHANGED <<coreVars, spVars, peVars>>
    \/ \E key \in DbKeys : BadgerDatabaseDelete(1, key) /\ UNCHANGED <<coreVars, spVars, peVars>>

SpecKeyValue == DatabaseInit /\ [][KeyValueNext]_vars

\* the first caller stages, cancels and commits a batch while the second reads
MemBatchNext ==
    \/ MemDatabaseNewBatch /\ UNCHANGED <<coreVars, spVars, peVars>>
    \/ \E key \in StagedSets : memBatchSet(key, DbValue(key)) /\ UNCHANGED <<coreVars, spVars, peVars>>
    \/ \E key \in StagedDeletes : memBatchDelete(key) /\ UNCHANGED <<coreVars, spVars, peVars>>
    \/ memBatchCommitLock /\ UNCHANGED <<coreVars, spVars, peVars>>
    \/ memBatchCommitWrite /\ UNCHANGED <<coreVars, spVars, peVars>>
    \/ memBatchCommit /\ UNCHANGED <<coreVars, spVars, peVars>>
    \/ memBatchCancel /\ UNCHANGED <<coreVars, spVars, peVars>>
    \/ \E key \in DbKeys : MemDatabaseGetRLock(2, key) /\ UNCHANGED <<coreVars, spVars, peVars>>
    \/ MemDatabaseGet(2) /\ UNCHANGED <<coreVars, spVars, peVars>>
    \/ \E key \in DbKeys : MemDatabaseHasRLock(2, key) /\ UNCHANGED <<coreVars, spVars, peVars>>
    \/ MemDatabaseHas(2) /\ UNCHANGED <<coreVars, spVars, peVars>>

SpecMemBatch == DatabaseInit /\ [][MemBatchNext]_vars

\* two callers in the methods of one MemDatabase, the first also committing a batch
MemLockNext ==
    \/ \E p \in Callers : MemDatabasePutLock(p, <<107, 49>>, DbValue(<<107, 49>>))
                               /\ UNCHANGED <<coreVars, spVars, peVars>>
    \/ \E p \in Callers : MemDatabasePut(p) /\ UNCHANGED <<coreVars, spVars, peVars>>
    \/ \E p \in Callers : MemDatabaseDeleteLock(p, <<107, 49>>) /\ UNCHANGED <<coreVars, spVars, peVars>>
    \/ \E p \in Callers : MemDatabaseDelete(p) /\ UNCHANGED <<coreVars, spVars, peVars>>
    \/ \E p \in Callers : MemDatabaseGetRLock(p, <<107, 49>>) /\ UNCHANGED <<coreVars, spVars, peVars>>
    \/ \E p \in Callers : MemDatabaseGet(p) /\ UNCHANGED <<coreVars, spVars, peVars>>
    \/ \E p \in Callers : MemDatabaseHasRLock(p, <<107, 49>>) /\ UNCHANGED <<coreVars, spVars, peVars>>
    \/ \E p \in Callers : MemDatabaseHas(p) /\ UNCHANGED <<coreVars, spVars, peVars>>
    \/ \E p \in Callers : MemDatabaseKeysRLock(p) /\ UNCHANGED <<coreVars, spVars, peVars>>
    \/ \E p \in Callers : MemDatabaseKeys(p) /\ UNCHANGED <<coreVars, spVars, peVars>>
    \/ \E p \in Callers : MemDatabaseLenBegin(p) /\ UNCHANGED <<coreVars, spVars, peVars>>
    \/ \E p \in Callers : MemDatabaseLen(p) /\ UNCHANGED <<coreVars, spVars, peVars>>
    \/ memBatchSet(<<107, 50>>, DbValue(<<107, 50>>)) /\ UNCHANGED <<coreVars, spVars, peVars>>
    \/ memBatchCommitLock /\ UNCHANGED <<coreVars, spVars, peVars>>
    \/ memBatchCommitWrite /\ UNCHANGED <<coreVars, spVars, peVars>>
    \/ memBatchCommit /\ UNCHANGED <<coreVars, spVars, peVars>>

SpecMemLock == DatabaseInit /\ [][MemLockNext]_vars

\* signatures are attached to a block and pooled, and the pool is cleaned with
\* the signatures the block returns
BlockPoolInit == BlockSignInit

BlockPoolNext ==
    \/ \E bs \in BlockSignatureInputs(block) :
           BlockSetSignature(bs) /\ UNCHANGED <<psVars, prVars, evVars, stVars, ixVars, moreVars>>
    \/ \E blockSignature \in BlockSignatureInputs(block) :
           SigPoolAdd(blockSignature) /\ UNCHANGED <<coreVars, peVars, dbVars>>
    \/ \E sigs \in BlockGetSignaturesResults(block) :
           SigPoolRemoveSlice(sigs) /\ UNCHANGED <<coreVars, peVars, dbVars>>
    \/ SigPoolLen /\ UNCHANGED <<coreVars, peVars, dbVars>>

SpecBlockPool == BlockPoolInit /\ [][BlockPoolNext]_vars

(***************************************************************************)
(* Claims on PeerSetCache.                                                 *)
(***************************************************************************)
\* the rounds that have a snapshot
Registered == DOMAIN peerSets

\* C2: after any sequence of successful Set calls in any order of rounds, Get(r)
\* returns the snapshot of the greatest registered round <= r, or of the smallest
\* registered round when every registered round is greater than r, and fails with
\* KeyNotFound exactly when no snapshot has ever been registered.
C2_GetRangeLookup ==
    \A r \in -1..(MaxRound + 1) :
        LET got == PeerSetCacheGet(r)
            atOrBefore == {q \in Registered : q <= r}
        IN  /\ (got.err = "KeyNotFound") <=> (Registered = {})
            /\ got.err \in {"nil", "KeyNotFound"}
            /\ Registered # {} =>
                   got.peerSet = IF atOrBefore # {}
                                 THEN peerSets[Max(atOrBefore)]
                                 ELSE peerSets[Min(Registered)]

\* C2 witness: the last Set succeeded for a round below an already registered one,
\* and a queried round lies strictly between two registered rounds whose snapshots
\* differ.
C2_Witness ==
    /\ Cardinality(Registered) >= 2
    /\ psRet.err = "nil"
    /\ psRet.round < Max(Registered)
    /\ \E r \in Rounds \ Registered :
           /\ \E q \in Registered : q < r
           /\ \E q \in Registered : q > r /\ peerSets[q] # PeerSetCacheGet(r).peerSet

\* C3: Set on a round that already has a snapshot fails with KeyAlreadyExists and
\* leaves the snapshot of that round, the sorted round list, both repertoires and
\* every first round as they were.
C3_SetExistingRejected ==
    [][\A round \in Rounds, peerSet \in PeerSetValues :
          (round \in DOMAIN peerSets /\ PeerSetCacheSet(round, peerSet)) =>
              /\ psRet'.err = "KeyAlreadyExists"
              /\ peerSets' = peerSets
              /\ rounds' = rounds
              /\ repertoireByPubKey' = repertoireByPubKey
              /\ repertoireByID' = repertoireByID
              /\ firstRounds' = firstRounds]_vars

\* C3 witness: the last Set was rejected, for a round whose snapshot is in place
\* next to another registered round.
C3_Witness ==
    /\ psRet.err = "KeyAlreadyExists"
    /\ psRet.round \in DOMAIN peerSets
    /\ Cardinality(DOMAIN peerSets) >= 2


\* the registered rounds whose snapshot contains the peer with this id
RoundsWithPeer(id) == {r \in Registered : \E p \in peerSets[r] : PeerID(p) = id}

\* C12: whatever the order of the rounds given to Set, FirstRound(id) returns
\* (m, true) with m the least registered round whose snapshot contains the peer,
\* and (MaxInt32, false) when no registered snapshot contains it.
C12_FirstRoundIsMinimum ==
    \A id \in {PeerID(p) : p \in Peers} \cup {0, NumPeers + 1} :
        PeerSetCacheFirstRound(id) =
            IF RoundsWithPeer(id) # {}
            THEN [round |-> Min(RoundsWithPeer(id)), found |-> TRUE]
            ELSE [round |-> MaxInt32, found |-> FALSE]

\* C12 witness: the last Set registered a round below a round already registered
\* with the same peer, and another peer is in no snapshot.
C12_Witness ==
    /\ psRet.err = "nil"
    /\ psRet.round \in Registered
    /\ \E p \in peerSets[psRet.round] :
           /\ \E q \in RoundsWithPeer(PeerID(p)) : q > psRet.round
           /\ PeerSetCacheFirstRound(PeerID(p)) = [round |-> psRet.round, found |-> TRUE]
    /\ \E p \in Peers :
           /\ RoundsWithPeer(PeerID(p)) = {}
           /\ ~PeerSetCacheFirstRound(PeerID(p)).found

\* the peers that are in at least one registered snapshot
SnapshotPeers == UNION {peerSets[r] : r \in Registered}

\* C13: both repertoires hold exactly the peers that are in at least one
\* registered snapshot, each under its own id and public key, and no Set call
\* removes an entry.
C13_RepertoiresCumulative ==
    /\ [](/\ DOMAIN RepertoireByID = {PeerID(p) : p \in SnapshotPeers}
          /\ DOMAIN RepertoireByPubKey = {PubKeyString(p) : p \in SnapshotPeers}
          /\ \A p \in SnapshotPeers :
                 RepertoireByID[PeerID(p)] = p /\ RepertoireByPubKey[PubKeyString(p)] = p)
    /\ [][/\ DOMAIN repertoireByID \subseteq DOMAIN repertoireByID'
          /\ DOMAIN repertoireByPubKey \subseteq DOMAIN repertoireByPubKey']_vars

\* C13 witness: a peer of an earlier snapshot is in no snapshot of a later round
\* and both repertoires still resolve it.
C13_Witness ==
    \E p \in Peers, r \in Registered :
        /\ p \in peerSets[r]
        /\ \E q \in Registered : q > r
        /\ \A q \in Registered : q > r => p \notin peerSets[q]
        /\ psRet.err = "nil" /\ psRet.round > r
        /\ PeerID(p) \in DOMAIN RepertoireByID
        /\ PubKeyString(p) \in DOMAIN RepertoireByPubKey
(***************************************************************************)
(* Claims on PendingRoundsCache.                                           *)
(***************************************************************************)
\* C1: after any sequence of Set, Update and Clean calls, including Set called
\* twice with the same round index, GetOrderedPendingRounds holds at most one
\* entry per round index.
C1_AtMostOneEntryPerIndex ==
    \A i, j \in DOMAIN GetOrderedPendingRounds :
        i # j => GetOrderedPendingRounds[i].Index # GetOrderedPendingRounds[j].Index


\* the Decided flag of the entry queued for a round
QueuedDecided(h, m, round) == h[m[round]].Decided

\* C14: Update(decidedRounds) sets Decided on exactly the listed rounds that are
\* queued, leaves the flag of every other queued round, the index of every
\* entry, the set of queued rounds and the ordered view as they were, and
\* creates no entry.
C14_UpdateFrame ==
    [][prOp' = "Update" =>
          \A decidedRounds \in RoundLists :
              PendingRoundsCacheUpdate(decidedRounds) =>
                  /\ items' = items
                  /\ sortedItems' = sortedItems
                  /\ DOMAIN prHeap' = DOMAIN prHeap
                  /\ \A a \in DOMAIN prHeap : prHeap'[a].Index = prHeap[a].Index
                  /\ \A round \in Indexes :
                         /\ Queued(round) <=> round \in DOMAIN items'
                         /\ Queued(round) =>
                                QueuedDecided(prHeap', items', round) =
                                    IF round \in Range(decidedRounds)
                                    THEN TRUE
                                    ELSE QueuedDecided(prHeap, items, round)]_vars

\* C14 witness: after an Update, one queued round is decided, another queued
\* round is not, and a third round is not queued.
C14_Witness ==
    /\ prOp = "Update"
    /\ \E r1, r2, r3 \in Indexes :
           /\ Queued(r1) /\ QueuedDecided(prHeap, items, r1)
           /\ Queued(r2) /\ ~QueuedDecided(prHeap, items, r2)
           /\ ~Queued(r3)

\* C15: Clean(processedRounds) leaves queued exactly the rounds that were queued
\* and are not listed, and the ordered view then holds exactly one entry per
\* queued round, the entry queued for it, with the Decided flag it had.
C15_CleanRemovesExactly ==
    [][prOp' = "Clean" =>
          \A processedRounds \in RoundLists :
              PendingRoundsCacheClean(processedRounds) =>
                  /\ \A round \in Indexes :
                         (round \in DOMAIN items') <=>
                             (Queued(round) /\ round \notin Range(processedRounds))
                  /\ Len(sortedItems') = Cardinality(DOMAIN items')
                  /\ \A round \in DOMAIN items' :
                         /\ items'[round] = items[round]
                         /\ \E i \in DOMAIN sortedItems' :
                                /\ sortedItems'[i] = items[round]
                                /\ prHeap'[sortedItems'[i]] = prHeap[items[round]]
                                /\ \A j \in DOMAIN sortedItems' :
                                       prHeap'[sortedItems'[j]].Index = round => j = i]_vars

\* C15 witness: after a Clean, two rounds are queued, one of them decided, and
\* another round is not queued.
C15_Witness ==
    /\ prOp = "Clean"
    /\ Len(sortedItems) >= 2
    /\ \E r1, r2 \in Indexes :
           /\ Queued(r1) /\ QueuedDecided(prHeap, items, r1)
           /\ Queued(r2) /\ r2 # r1
    /\ \E r3 \in Indexes : ~Queued(r3)

\* C16: after any sequence of Set, Update and Clean calls the sequence returned
\* by GetOrderedPendingRounds is in ascending order of round index.
C16_OrderedViewAscending ==
    \A i, j \in DOMAIN GetOrderedPendingRounds :
        i < j => GetOrderedPendingRounds[i].Index <= GetOrderedPendingRounds[j].Index

\* C16 witness: after a Set, the view holds two rounds of different indexes and
\* the entry created later stands before the entry created earlier.
C16_Witness ==
    /\ prOp = "Set"
    /\ Len(sortedItems) >= 2
    /\ \E i, j \in DOMAIN sortedItems :
           /\ i < j
           /\ sortedItems[i] > sortedItems[j]
           /\ GetOrderedPendingRounds[i].Index < GetOrderedPendingRounds[j].Index

\* C27: after any sequence of Set, Update and Clean calls every entry of the
\* ordered view is the entry queued in the map for its round index, so after
\* Update(rs) every entry of the view whose index is in rs has Decided = true.
C27_ViewAndMapAgree ==
    /\ [](\A i \in DOMAIN sortedItems :
             /\ prHeap[sortedItems[i]].Index \in DOMAIN items
             /\ items[prHeap[sortedItems[i]].Index] = sortedItems[i])
    /\ [][prOp' = "Update" =>
             \A decidedRounds \in RoundLists :
                 PendingRoundsCacheUpdate(decidedRounds) =>
                     \A i \in DOMAIN sortedItems' :
                         prHeap'[sortedItems'[i]].Index \in Range(decidedRounds) =>
                             prHeap'[sortedItems'[i]].Decided]_vars
(***************************************************************************)
(* Claims on Event.                                                        *)
(***************************************************************************)
\* Verify returns true, without error, on event e
VerifiesTrue(e) == EventVerifyResult(e) = [ok |-> TRUE, err |-> "nil"]

\* C4: a GetHash call that follows a mutation of the event's transactions
\* returns a hash different from the one the previous GetHash call returned, and
\* a GetHash call with no mutation in between returns the same hash again.
C4_HashFollowsMutation ==
    [][(EventGetHash /\ Len(lastHash) > 0) =>
          IF mutated THEN evRet'.val # lastHash ELSE evRet'.val = lastHash]_vars

\* C5: the four wire fields are not part of the hashed bytes: SetWireInfo leaves
\* the identity hash (EventBody.Hash) and the signing hash (HashSign) of the body
\* as they were, and afterwards the two hashes are still taken over the same bytes.
C5_WireFieldsNotHashed ==
    [][\A w \in WireInputs :
          EventSetWireInfo(w[1], w[2], w[3], w[4]) =>
              /\ EventBodyHash(event'.Body) = EventBodyHash(event.Body)
              /\ EventBodyHashSign(event'.Body) = EventBodyHashSign(event.Body)
              /\ EventBodyMarshal(event'.Body) = EventBodyMarshalSign(event'.Body)]_vars

\* every internal transaction the event carries verifies
AllInternalTransactionsValid(e) ==
    \A i \in DOMAIN e.Body.InternalTransactions :
        InternalTransactionVerify(e.Body.InternalTransactions[i]) = [ok |-> TRUE, err |-> "nil"]

\* C7: an event that was signed by the private key of its Body.Creator, and whose
\* internal transactions are all validly signed, verifies: Verify returns true
\* after Sign, whatever SetWireInfo calls were made since.
C7_SignThenVerify ==
    (/\ signedBy \in PrivKeys
     /\ event.Body.Creator = FromECDSAPub(signedBy)
     /\ AllInternalTransactionsValid(event)) => VerifiesTrue(event)

\* C7 witness: Verify has returned true on an event that carries an internal
\* transaction, was signed and was given wire fields that are not zero.
C7_Witness ==
    /\ evRet.op = "Verify"
    /\ evRet.ok
    /\ signedBy \in PrivKeys
    /\ event.Body.SelfParentIndex # 0
    /\ event.Body.CreatorID # 0
    /\ Len(event.Body.InternalTransactions) > 0

\* the byte values a signature byte is changed to
ByteChanges(x) == {0, 1, 255, (x + 1) % 256} \ {x}

\* event e with byte i of its decoded signature changed to x
WithSignatureByte(e, i, x) ==
    [e EXCEPT !.Signature = HexEncode([HexDecode(e.Signature).bytes EXCEPT ![i] = x])]

\* the values each of the six persistent body fields is changed to
PersistentFieldChanges(b) ==
    {[b EXCEPT !.Transactions = t] :
        t \in {Append(b.Transactions, TxValue), <<<<2>>>>, <<>>} \ {b.Transactions}}
    \cup {[b EXCEPT !.InternalTransactions = t] :
        t \in {Append(b.InternalTransactions, ItxGood), <<>>} \ {b.InternalTransactions}}
    \cup {[b EXCEPT !.Parents = t] :
        t \in {<<>>, TwoParents, <<<<98>>, <<97>>>>, <<<<97>>>>} \ {b.Parents}}
    \cup {[b EXCEPT !.Creator = t] :
        t \in ({FromECDSAPub(k) : k \in PrivKeys} \cup {<<>>, <<4>>}) \ {b.Creator}}
    \cup {[b EXCEPT !.Index = t] : t \in {0, b.Index + 1} \ {b.Index}}
    \cup {[b EXCEPT !.BlockSignatures = t] :
        t \in {<<>>, <<[Validator |-> b.Creator, Index |-> 0, Signature |-> <<48, 120>>]>>}
                  \ {b.BlockSignatures}}

\* the values each of the four wire fields is changed to
WireFieldChanges(b) ==
    {[b EXCEPT !.CreatorID = b.CreatorID + 1],
     [b EXCEPT !.OtherParentCreatorID = b.OtherParentCreatorID + 1],
     [b EXCEPT !.SelfParentIndex = b.SelfParentIndex + 1],
     [b EXCEPT !.OtherParentIndex = b.OtherParentIndex + 1]}

\* C8 as claimed: for an event on which Verify has returned true, changing any
\* byte of the signature or any field of the body makes Verify stop returning true.
C8_AnyChangeBreaksVerify ==
    (evRet.op = "Verify" /\ evRet.ok) =>
        /\ \A i \in DOMAIN HexDecode(event.Signature).bytes :
               \A x \in ByteChanges(HexDecode(event.Signature).bytes[i]) :
                   ~VerifiesTrue(WithSignatureByte(event, i, x))
        /\ \A b \in PersistentFieldChanges(event.Body) \cup WireFieldChanges(event.Body) :
               ~VerifiesTrue([event EXCEPT !.Body = b])

\* C8 as amended: for an event on which Verify has returned true, changing any
\* byte of the decoded signature but the last one, or any of the six persistent
\* body fields, makes Verify stop returning true.
C8_PersistentChangeBreaksVerify ==
    (evRet.op = "Verify" /\ evRet.ok) =>
        /\ \A i \in 1..(Len(HexDecode(event.Signature).bytes) - 1) :
               \A x \in ByteChanges(HexDecode(event.Signature).bytes[i]) :
                   ~VerifiesTrue(WithSignatureByte(event, i, x))
        /\ \A b \in PersistentFieldChanges(event.Body) :
               ~VerifiesTrue([event EXCEPT !.Body = b])

\* C8 witness: Verify was called and returned true on a signed event that carries
\* a transaction, an internal transaction and two parents.
C8_Witness ==
    /\ evRet.op = "Verify"
    /\ evRet.ok
    /\ VerifiesTrue(event)
    /\ Len(event.Body.Transactions) > 0
    /\ Len(event.Body.InternalTransactions) > 0
    /\ Len(event.Body.Parents) = 2

\* C9: Event.Verify and InternalTransaction.Verify return a boolean and possibly
\* an error for every signature string, and never panic.
C9_VerifyNeverPanics ==
    evRet.op \in {"Verify", "InternalTransaction.Verify"} => evRet.err # "panic"

\* C10: on an event without parents SelfParent and OtherParent fail with a
\* MissingParent error instead of panicking, and on an event with two parents
\* they return the first and the second parent hash.
C10_ParentAccessors ==
    evRet.op \in {"SelfParent", "OtherParent"} =>
        /\ Len(event.Body.Parents) = 0 => evRet.err = "MissingParent"
        /\ Len(event.Body.Parents) = 2 =>
               /\ evRet.err = "nil"
               /\ evRet.val = event.Body.Parents[IF evRet.op = "SelfParent" THEN 1 ELSE 2]


\* C11: when some internal transaction the event carries does not verify, Verify
\* returns false with the invalid-internal-transaction-signature error, whatever
\* the event's own signature is.
C11_InvalidItxFailsFast ==
    (evRet.op = "Verify" /\ ~AllInternalTransactionsValid(event)) =>
        (~evRet.ok /\ evRet.err = "invalid signature on internal transaction")

(***************************************************************************)
(* Claims on InternalTransaction.                                          *)
(***************************************************************************)
\* the signature the transaction carries was made by Sign over the body it has
\* now, with the private key of the public key in Body.Peer
SignedByPeerOverCurrentBody ==
    /\ itxSigned # <<>>
    /\ itxSigned[1].body = internalTx.Body
    /\ FromECDSAPub(itxSigned[1].key) = PubKeyBytes(internalTx.Body.Peer)

\* C20: Verify returns true exactly when the signature was made over the current
\* body by the private key of the public key carried in Body.Peer; a signature
\* made by another key, or over another body, does not verify.
C20_ItxSelfAuthenticated ==
    /\ InternalTransactionVerify(internalTx).ok <=> SignedByPeerOverCurrentBody
    /\ itxRet.op = "Verify" => (itxRet.ok <=> SignedByPeerOverCurrentBody)

\* C20 witness: Verify has returned false on a transaction signed over its
\* current body by a key that is not the key of Body.Peer.
C20_Witness ==
    /\ itxRet.op = "Verify" /\ ~itxRet.ok /\ itxRet.err = "nil"
    /\ itxSigned # <<>>
    /\ itxSigned[1].body = internalTx.Body
    /\ FromECDSAPub(itxSigned[1].key) # PubKeyBytes(internalTx.Body.Peer)
(***************************************************************************)
(* Claims on the ByLamportTimestamp order                                  *)
(***************************************************************************)
SliceIndexes == 1..Len(lamportSlice)

PairwiseDifferentSignatures ==
    \A i, j \in SliceIndexes : i # j => lamportSlice[i].Signature # lamportSlice[j].Signature

\* the slices that hold the same events as the current one, in another order
Reorderings ==
    {[k \in SliceIndexes |-> lamportSlice[p[k]]] :
        p \in {q \in [SliceIndexes -> SliceIndexes] : \A i, j \in SliceIndexes : i # j => q[i] # q[j]}}

\* C6: on a slice of events with pairwise different signatures, Less is a
\* strict total order (irreflexive, antisymmetric, transitive, any two distinct
\* events comparable) and sorting any reordering of the slice gives the same
\* sequence.
C6_LessIsStrictTotalOrder ==
    PairwiseDifferentSignatures =>
        /\ \A i \in SliceIndexes : ~ByLamportTimestampLess(lamportSlice, i, i)
        /\ \A i, j \in SliceIndexes :
               ~(ByLamportTimestampLess(lamportSlice, i, j) /\ ByLamportTimestampLess(lamportSlice, j, i))
        /\ \A i, j, k \in SliceIndexes :
               (ByLamportTimestampLess(lamportSlice, i, j) /\ ByLamportTimestampLess(lamportSlice, j, k))
                   => ByLamportTimestampLess(lamportSlice, i, k)
        /\ \A i, j \in SliceIndexes :
               i # j => (ByLamportTimestampLess(lamportSlice, i, j) \/ ByLamportTimestampLess(lamportSlice, j, i))
        /\ \A r \in Reorderings :
               SortByLamportTimestamp(r) = SortByLamportTimestamp(lamportSlice)


\* C25: an event whose Lamport timestamp is unset sorts strictly before every
\* event whose Lamport timestamp is set, whatever integer it is set to.
C25_UnsetSortsBeforeSet ==
    \A i, j \in SliceIndexes :
        (lamportSlice[i].LamportTimestamp = <<>> /\ lamportSlice[j].LamportTimestamp # <<>>) =>
            /\ ByLamportTimestampLess(lamportSlice, i, j)
            /\ ~ByLamportTimestampLess(lamportSlice, j, i)
(***************************************************************************)
(* Claims on Block.                                                        *)
(***************************************************************************)
\* the digest of the block's current body and signature map
CurrentBlockDigest == Keccak256(BlockMarshal(block))

\* C17: after any interleaving of Hash, Hex, AppendTransactions and SetSignature
\* calls, a memoized hash or hex is the digest of the current body and signature
\* map, and so is what Hash and Hex return.
C17_BlockHashIsCurrent ==
    /\ Len(block.hash) > 0 => block.hash = CurrentBlockDigest
    /\ block.hex # <<>> => block.hex = HexEncode(CurrentBlockDigest)
    /\ BlockAfterHash(block).hash = CurrentBlockDigest
    /\ BlockAfterHex(block).hex = HexEncode(CurrentBlockDigest)
    /\ blkRet.op = "Hash" => blkRet.val = CurrentBlockDigest
    /\ blkRet.op = "Hex" => blkRet.val = HexEncode(CurrentBlockDigest)

\* C17 witness: Hash has returned on a block that had transactions appended and
\* carries a signature.
C17_Witness ==
    /\ blkRet.op = "Hash"
    /\ Len(block.Body.Transactions) = MaxTxs
    /\ DOMAIN block.Signatures # {}
    /\ Len(block.hash) > 0

\* C18: the signature the last Sign call returned verifies with Verify, whatever
\* signatures SetSignature has attached to the block before or since.
C18_SignVerifiesWhateverAttached ==
    blkSigned # <<>> => BlockVerifyResult(block, blkSigned[1]) = [ok |-> TRUE, err |-> "nil"]

\* C18 witness: Verify has returned true while the block holds the signature of
\* a validator other than the signer of the kept signature.
C18_Witness ==
    /\ blkSigned # <<>>
    /\ blkRet.op = "Verify" /\ blkRet.ok
    /\ \E key \in DOMAIN block.Signatures : key # ValidatorCompressHex(blkSigned[1])

\* C19: after any sequence of SetSignature calls, GetSignatures returns one entry
\* per validator that signed, holding the signature last set for it, and
\* GetSignature returns that signature for a validator that signed and fails
\* with signature-not-found for one that did not.
C19_OneSignaturePerValidator ==
    /\ \A k \in PrivKeys :
           LET validator == FromECDSAPub(k)
               got == BlockGetSignatureResult(block, ValidatorCompressHex([Validator |-> validator]))
           IN  IF validator \in DOMAIN blkLastSet
               THEN /\ got.ok /\ got.err = "nil"
                    /\ got.val.Signature = blkLastSet[validator].Signature
                    /\ got.val.Index = BlockIndex(block)
               ELSE ~got.ok /\ got.err = "signature not found"
    /\ \A res \in BlockGetSignaturesResults(block) :
           /\ Len(res) = Cardinality(DOMAIN blkLastSet)
           /\ \A validator \in DOMAIN blkLastSet :
                  \E i \in DOMAIN res :
                      /\ res[i].Validator = CompressPubkey(UnmarshalPubkey(validator))
                      /\ res[i].Signature = blkLastSet[validator].Signature
                      /\ \A j \in DOMAIN res : res[j].Validator = res[i].Validator => j = i

\* C19 witness: GetSignature has found the signature of a validator whose
\* earlier signature was replaced, and another validator has not signed.
C19_Witness ==
    /\ blkRet.op = "GetSignature" /\ blkRet.ok
    /\ \E validator \in DOMAIN blkLastSet :
           /\ blkLastSet[validator].Replaced
           /\ blkRet.val.Signature = blkLastSet[validator].Signature
           /\ blkRet.val.Validator = CompressPubkey(UnmarshalPubkey(validator))
    /\ \E k \in PrivKeys : FromECDSAPub(k) \notin DOMAIN blkLastSet
(***************************************************************************)
(* Claims on SigPool.                                                      *)
(***************************************************************************)
\* C21: Len() is the number of (index, validator) keys added and not removed
\* since, the pool holds for each of them the signature added last, so two
\* validators at one index are both held and a second Add of a key replaces
\* the held signature and leaves Len() as it was.
C21_AddIsUpsertByIndexAndValidator ==
    /\ Cardinality(DOMAIN spItems) = Cardinality(DOMAIN spLive)
    /\ \A p \in DOMAIN spLive :
           /\ BlockSignatureKey(spLive[p]) \in DOMAIN spItems
           /\ spItems[BlockSignatureKey(spLive[p])] = spLive[p]
    /\ spRet.op = "Len" => spRet.val = Cardinality(DOMAIN spLive)

\* C21 witness: Len has returned 2 for a pool holding two validators at one
\* index, one of them with the signature of its second Add.
C21_Witness ==
    /\ spRet.op = "Len" /\ spRet.val = 2
    /\ \E p, q \in DOMAIN spLive :
           /\ p[1] = q[1] /\ p[2] # q[2]
           /\ spLive[p].Signature = <<48, 120, 48, 50>>
           /\ spLive[q].Signature = <<48, 120, 48, 49>>

\* the pool keys of the signatures of batch sigs
BatchKeys(sigs) == {BlockSignatureKey(sigs[i]) : i \in DOMAIN sigs}

\* C22: a RemoveSlice(sigs) call that returns has removed exactly the pooled
\* entries whose key is the key of a signature in sigs and has left every other
\* entry as it was; for a key that is not pooled nothing changes.
C22_RemoveSliceFrame ==
    [][(spRet'.op = "RemoveSlice" /\ spRet'.err = "nil") =>
          /\ DOMAIN spItems' = DOMAIN spItems \ BatchKeys(spRet'.val)
          /\ \A k \in DOMAIN spItems' : spItems'[k] = spItems[k]
          /\ (BatchKeys(spRet'.val) \cap DOMAIN spItems = {}) => spItems' = spItems]_vars

\* C22 witness: RemoveSlice has returned for a batch of two signatures, one
\* entry of another validator at the same index is still pooled.
C22_Witness ==
    /\ spRet.op = "RemoveSlice" /\ spRet.err = "nil" /\ Len(spRet.val) = 2
    /\ BatchKeys(spRet.val) \cap DOMAIN spItems = {}
    /\ \E k \in DOMAIN spItems : \E i \in DOMAIN spRet.val :
           spItems[k].Index = spRet.val[i].Index

\* the BlockSignature last given to SetSignature for a validator
LastGiven(validator) ==
    [Validator |-> validator, Index |-> BlockIndex(block),
     Signature |-> blkLastSet[validator].Signature]

\* C28: for every BlockSignature bs given to SetSignature, the signature that
\* GetSignature returns for that validator has the same Key() as bs, and
\* RemoveSlice(block.GetSignatures()) returns with no pooled copy left of a
\* signature the block carries.
C28_AttachedSignatureKeepsKey ==
    /\ [](\A validator \in DOMAIN blkLastSet :
             LET got == BlockGetSignatureResult(block,
                            ValidatorCompressHex(LastGiven(validator))).val
             IN  /\ KeyReturns(got)
                 /\ BlockSignatureKey(got) = BlockSignatureKey(LastGiven(validator)))
    /\ [][(spRet'.op = "RemoveSlice" /\ spRet'.val \in BlockGetSignaturesResults(block)) =>
             /\ spRet'.ok
             /\ \A validator \in DOMAIN blkLastSet :
                    BlockSignatureKey(LastGiven(validator)) \notin DOMAIN spItems']_vars
(***************************************************************************)
(* Claims on ParticipantEventsCache.                                       *)
(***************************************************************************)
\* the references a rolling index retains with index above skipIndex, in
\* ascending order of index
RetainedAfter(ri, skipIndex) ==
    LET from == Max({skipIndex, OldestCachedIndex(ri) - 1})
    IN  [j \in 1..Max({0, ri.lastIndex - from}) |-> HashAt(from + j)]

\* the last call was made for a registered participant
ForRegistered == pecRet.participant \in DOMAIN pecParticipants

\* the rolling index of the participant of the last call
LogOfCall == rim[PeerID(pecParticipants[pecRet.participant])]

\* the skip index of the last Get predates the retained window
SkipPredatesWindow ==
    /\ pecRet.arg <= LogOfCall.lastIndex
    /\ pecRet.arg + 1 < OldestCachedIndex(LogOfCall)

\* C23 as stated: Get for a registered participant returns exactly the retained
\* references with index above skipIndex, in ascending order.
C23_GetReturnsRetainedAfterSkip ==
    (pecRet.op = "Get" /\ ForRegistered) =>
        (pecRet.ok /\ pecRet.val = RetainedAfter(LogOfCall, pecRet.arg))

\* C23 amended: Get for a registered participant returns exactly the retained
\* references with index above skipIndex, in ascending order, unless skipIndex
\* predates the retained window, when it fails with TooLate and returns none;
\* GetLast returns the reference of the highest index set and Known maps the
\* participant's id to that index.
C23_GetReturnsRetainedOrTooLate ==
    /\ (pecRet.op = "Get" /\ ForRegistered) =>
           IF SkipPredatesWindow
           THEN ~pecRet.ok /\ pecRet.err = "TooLate" /\ pecRet.val = <<>>
           ELSE pecRet.ok /\ pecRet.val = RetainedAfter(LogOfCall, pecRet.arg)
    /\ (pecRet.op = "GetLast" /\ pecRet.ok) =>
           pecRet.val = HashAt(pecHigh[PeerID(pecParticipants[pecRet.participant])])
    /\ pecRet.op = "Known" =>
           \A id \in DOMAIN pecHigh : id \in DOMAIN pecRet.val /\ pecRet.val[id] = pecHigh[id]

\* C23 witness: after Set(P, h0, 0) and Set(P, h1, 1), Get(P, 0) has returned [h1].
C23_Witness ==
    /\ pecRet.op = "Get" /\ pecRet.ok /\ pecRet.arg = 0 /\ ForRegistered
    /\ pecRet.val = <<HashAt(1)>>
    /\ LogOfCall = [lastIndex |-> 1, items |-> <<HashAt(0), HashAt(1)>>]

\* C24: a call of Get, GetItem, GetLast or Set with a key that is not in the
\* roster fails with UnknownParticipant, uses no method of the rolling index
\* map and leaves the logs, and so the result of Known(), as they are.
C24_UnknownParticipantFrame ==
    [][(pecRet'.op \in {"Get", "GetItem", "GetLast", "Set"}
            /\ pecRet'.participant \notin DOMAIN pecParticipants) =>
          /\ ~pecRet'.ok /\ pecRet'.err = "UnknownParticipant"
          /\ pecRim' = "none"
          /\ rim' = rim
          /\ RollingIndexMapKnown(rim') = RollingIndexMapKnown(rim)]_vars

\* C24 witness: Set for a key that is not in the roster has failed while a
\* registered participant has a log with an entry.
C24_Witness ==
    /\ pecRet.op = "Set" /\ pecRet.err = "UnknownParticipant"
    /\ pecRet.participant \notin DOMAIN pecParticipants
    /\ \E id \in DOMAIN rim : Len(rim[id].items) > 0
(***************************************************************************)
(* Claims on the key-value backends.                                       *)
(***************************************************************************)
\* C26: Get on a key that is not stored returns ErrKeyNotFound, in MemDatabase
\* as in BadgerDatabase, and Has on that key returns false without error.
C26_MissingKeyIsErrKeyNotFound ==
    /\ []((dbRet.op \in {"MemDatabase.Get", "BadgerDatabase.Get"} /\ ~dbRet.ok) =>
              dbRet.err = ErrKeyNotFound)
    /\ [](dbRet.op \in {"MemDatabase.Has", "BadgerDatabase.Has"} => dbRet.err = "nil")
    /\ [][/\ \A key \in DbKeys :
                (BadgerDatabaseGet(1, key) /\ key \notin DOMAIN badgerDb) => ~dbRet'.ok
          /\ \A key \in DbKeys :
                (BadgerDatabaseHas(1, key) /\ key \notin DOMAIN badgerDb) => ~dbRet'.ok
          /\ (MemDatabaseGet(1) /\ pc[1].key \notin DOMAIN memDb) => ~dbRet'.ok
          /\ (MemDatabaseHas(1) /\ pc[1].key \notin DOMAIN memDb) => ~dbRet'.ok]_vars

\* the map after the staged writes of batch from position i on are applied to m
RECURSIVE ApplyWrites(_, _, _)
ApplyWrites(m, batch, i) ==
    IF i > Len(batch) THEN m
    ELSE ApplyWrites(IF batch[i].del THEN MapDelete(m, batch[i].k)
                     ELSE MapPut(m, batch[i].k, batch[i].v), batch, i + 1)

\* the second caller is reading the map in Get or Has
Observing == pc[2].at = "reading" /\ pc[2].op \in {"Get", "Has"}

\* C29: staged writes are invisible until Commit; Commit applies all of them in
\* staging order under one write lock, so a reader sees none or all of them;
\* a batch on which Cancel was called applies none of its writes, also when
\* Commit is called afterwards.
C29_BatchIsAtomic ==
    /\ []((Observing /\ pc[1].op = "Commit") =>
              memDb \in {dbAtCommit, ApplyWrites(dbAtCommit, memBatch, 1)})
    /\ [][/\ (dbRet'.op \in {"memBatch.Set", "memBatch.Delete"} /\ dbRet' # dbRet) => memDb' = memDb
          /\ memBatchCommit => memDb = ApplyWrites(dbAtCommit, memBatch, 1)
          /\ (memBatchCommit /\ batchCancelled) => memDb = dbAtCommit]_vars

\* a caller is in the part of a method that reads the map, or that writes it
ReadsMap(p) == pc[p].at = "reading"
WritesMap(p) == pc[p].at = "writing"

\* C30: every read of the map is made under the read lock and every write
\* under the write lock, so no caller reads the map while another writes it.
C30_ReadersWritersExcluded ==
    /\ \A p \in Callers : ReadsMap(p) => p \in rwLock.readers
    /\ \A p \in Callers : WritesMap(p) => rwLock.writer = p
    /\ \A p, q \in Callers : ~(p # q /\ ReadsMap(p) /\ WritesMap(q))
====
